---- MODULE Spec2Model ----
(***************************************************************************)
(* A model of the CRHS engine of CryptaPath (crate crush): the Bdd of      *)
(* levels of nodes, the System of Bdds with its LinBank, and the rewrite   *)
(* operations swap, add, absorb, drop, join, fix and scan.                 *)
(*                                                                         *)
(* Representation.  A Vob (bit vector over the variables) is the set of    *)
(* the positions of its set bits; an Option<Id> is a set of at most one    *)
(* id; a hash map is a function on the set of its keys.  The order in      *)
(* which a hash map is iterated is not specified by the program: it is     *)
(* the order given by hseed, which every operation draws afresh.           *)
(***************************************************************************)
EXTENDS Integers, Sequences, FiniteSets, TLC

VARIABLES
    bdds,      \* System.bdds: bdd id -> Bdd
    lin_bank,  \* System.lin_bank.lin_eqs: sequence of LinEq
    status,    \* "ok", or "panic" once an operation has aborted the program
    last,      \* the last public call: its name, operands and result
    pre,       \* the System as it was when the last call was made
    before,    \* the call made before the last one, and the System it was made on
    orig,      \* the System as it was built
    given,     \* the equations passed to System::fix so far
    covered,   \* every absorb so far named an edge value its level has
    steps,     \* number of public calls made so far
    returned,  \* the vectors that the last call returned, if it was a solve
    hseed,     \* iteration order of the hash maps during the next call
    matrix,    \* the rows of a Matrix handed to a function of algebra
    vector,    \* the right hand side handed with it
    answer,    \* the function of algebra called on them, and what it returned
    resolving  \* the last call of resolve: its join order and the forms it went through

vars == <<bdds, lin_bank, status, last, pre, before, orig, given, covered, steps, returned, hseed,
          matrix, vector, answer, resolving>>

---------------------------------------------------------------------------
(* Bounds of the model *)

\* number of variables of the System (System.nvar)
NVar == 3

\* number of public calls in one behaviour
MaxSteps == 2

\* the iteration orders of a hash map that are modelled
HashSeeds == 2

\* the Matrices handed to the functions of algebra have at most MaxRows rows
MaxRows == 3

\* the passes of the loop of a solver that are followed
MaxPasses == 4

\* the most ids in a slice handed to split
MaxIds == 2

---------------------------------------------------------------------------
(* Ids, options, bit vectors *)

\* the multiplier of the node ids
IdMult == 10000

\* an id scheme without the suffix of the Bdd
GlobalIdNoSuffix(local, bdd_id) == local * IdMult

\* Id::new(next_id * 10000 + bdd_id)
GlobalId(local, bdd_id) == local * IdMult + bdd_id

None == {}
Some(x) == {x}
IsSome(o) == o # {}
Unwrap(o) == CHOOSE x \in o : TRUE

Vars == 0 .. (NVar - 1)

\* the bits set in a or in b, in place of those set in exactly one of them
OrBits(a, b) == a \cup b

\* Vob::xor
Xor(a, b) == (a \ b) \cup (b \ a)

SetMax(S) == CHOOSE x \in S : \A y \in S : y <= x
SetMin(S) == CHOOSE x \in S : \A y \in S : x <= y

\* LinEq::get_lhs_max_set_bit / algebra::get_max_set_bit: None for the zero vector
get_max_set_bit(vob) == IF vob = {} THEN None ELSE Some(SetMax(vob))

RECURSIVE SortAsc(_)
SortAsc(S) == IF S = {} THEN << >> ELSE <<SetMin(S)>> \o SortAsc(S \ {SetMin(S)})

RECURSIVE SortDesc(_)
SortDesc(S) == IF S = {} THEN << >> ELSE <<SetMax(S)>> \o SortDesc(S \ {SetMax(S)})

\* the function f itself, held as a table of its values
Table(f) == f @@ << >>

\* s rotated to the left by k places
Rotate(s, k) ==
    Table([i \in 1 .. Len(s) |-> s[((i - 1 + k) % Len(s)) + 1]])

\* the order in which a hash map or hash set with the keys S is iterated:
\* ascending, descending, or ascending from some key on
IterOrder(S) ==
    IF hseed = 0 THEN SortAsc(S)
    ELSE IF hseed = 1 THEN SortDesc(S)
    ELSE IF S = {} THEN << >> ELSE Rotate(SortAsc(S), hseed - 1)

\* HashMap::insert
Insert(f, k, v) == (k :> v) @@ f

\* the map f without the keys in S
Without(f, S) == Table([k \in (DOMAIN f) \ S |-> f[k]])

EmptyMap == [k \in {} |-> 0]

Range(s) == {s[i] : i \in DOMAIN s}

\* Vec::remove(i) on a sequence indexed from 1
RemoveAt(s, i) == Table([k \in 1 .. (Len(s) - 1) |-> IF k < i THEN s[k] ELSE s[k + 1]])

---------------------------------------------------------------------------
(* Node, Level, Bdd.  Level indices are those of the program (the source  *)
(* is level 0); the sequence levels is indexed from 1, so that level i is  *)
(* levels[i + 1].                                                          *)

Node(e0, e1) == [e0 |-> e0, e1 |-> e1]

\* Node::flip_edges
flip_edges(node) == [e0 |-> node.e1, e1 |-> node.e0]

Level(lhs, nodes) == [lhs |-> lhs, nodes |-> nodes]

\* a Bdd; panicked is set by an operation that has aborted
Bdd(levels, id, next_id) ==
    [levels |-> levels, id |-> id, next_id |-> next_id, panicked |-> FALSE]

Panic(bdd) == [bdd EXCEPT !.panicked = TRUE]

\* Bdd::get_levels_size
get_levels_size(bdd) == Len(bdd.levels)

\* Bdd::get_sink_level_index
get_sink_level_index(bdd) == Len(bdd.levels) - 1

\* self.levels[i]
Lv(bdd, i) == bdd.levels[i + 1]

\* the Bdd with the nodes of level i replaced
SetNodes(bdd, i, nodes) == [bdd EXCEPT !.levels[i + 1].nodes = nodes]

\* the edge pair of the child an edge leads to: (None, None) for an absent
\* edge and for an edge to a node that the level below does not hold
ChildEdges(e, below) ==
    IF IsSome(e) /\ Unwrap(e) \in DOMAIN below
    THEN <<below[Unwrap(e)].e0, below[Unwrap(e)].e1>>
    ELSE <<None, None>>

\* a swap that makes a new node for every edge, known pair or not
SwapEdgeAlwaysNew(acc, nid, which, pair, bdd_id) ==
    IF IsSome(pair[1]) \/ IsSome(pair[2])
    THEN LET new_id == GlobalId(acc.next_id + 1, bdd_id)
         IN  [above   |-> [acc.above EXCEPT ![nid][which] = Some(new_id)],
              nodes   |-> Insert(acc.nodes, new_id, Node(pair[1], pair[2])),
              known   |-> Insert(acc.known, pair, new_id),
              next_id |-> acc.next_id + 1]
    ELSE [acc EXCEPT !.above[nid][which] = None]

\* swap, for one edge (which) of one node (nid) of the level above: the node
\* is connected to the node of the new level that has the edge pair, created
\* when no such node is known yet, and disconnected when the pair is empty
SwapEdge(acc, nid, which, pair, bdd_id) ==
    IF IsSome(pair[1]) \/ IsSome(pair[2])
    THEN IF pair \in DOMAIN acc.known
         THEN [acc EXCEPT !.above[nid][which] = Some(acc.known[pair])]
         ELSE LET new_id == GlobalId(acc.next_id + 1, bdd_id)
              IN  [above   |-> [acc.above EXCEPT ![nid][which] = Some(new_id)],
                   nodes   |-> Insert(acc.nodes, new_id, Node(pair[1], pair[2])),
                   known   |-> Insert(acc.known, pair, new_id),
                   next_id |-> acc.next_id + 1]
    ELSE [acc EXCEPT !.above[nid][which] = None]

\* a swap that gives the new node on the 0-edge the edges of the 0-child,
\* and the one on the 1-edge those of the 1-child
SwapNodeUncrossed(acc, nid, below, bdd_id) ==
    LET node     == acc.above[nid]
        e0_edges == ChildEdges(node.e0, below)
        e1_edges == ChildEdges(node.e1, below)
        acc0     == SwapEdge(acc, nid, "e0", <<e0_edges[1], e0_edges[2]>>, bdd_id)
    IN  SwapEdge(acc0, nid, "e1", <<e1_edges[1], e1_edges[2]>>, bdd_id)

\* swap, for one node of the level above
SwapNode(acc, nid, below, bdd_id) ==
    LET node     == acc.above[nid]
        e0_edges == ChildEdges(node.e0, below)
        e1_edges == ChildEdges(node.e1, below)
        acc0     == SwapEdge(acc, nid, "e0", <<e0_edges[1], e1_edges[1]>>, bdd_id)
    IN  SwapEdge(acc0, nid, "e1", <<e0_edges[2], e1_edges[2]>>, bdd_id)

RECURSIVE SwapLoop(_, _, _, _)
SwapLoop(acc, order, below, bdd_id) ==
    IF order = << >> THEN acc
    ELSE SwapLoop(SwapNode(acc, Head(order), below, bdd_id), Tail(order), below, bdd_id)

\* Bdd::swap
swap(bdd, level_index_above, level_index_below) ==
    IF bdd.panicked THEN bdd
    ELSE IF level_index_above + 1 # level_index_below
            \/ level_index_below > get_sink_level_index(bdd)
    THEN Panic(bdd)
    ELSE
    LET above == Lv(bdd, level_index_above)
        below == Lv(bdd, level_index_below)
        init  == [above |-> above.nodes, nodes |-> EmptyMap, known |-> EmptyMap,
                  next_id |-> bdd.next_id]
        acc   == SwapLoop(init, IterOrder(DOMAIN above.nodes), below.nodes, bdd.id)
    IN  [bdd EXCEPT !.next_id = acc.next_id,
                    !.levels[level_index_above + 1] = Level(below.lhs, acc.above),
                    !.levels[level_index_below + 1] = Level(above.lhs, acc.nodes)]

RECURSIVE SwapDown(_, _, _)
\* swap the level at index from down until it is at index to
SwapDown(bdd, from, to) ==
    IF from >= to \/ bdd.panicked THEN bdd
    ELSE SwapDown(swap(bdd, from, from + 1), from + 1, to)

\* add, the 0-edge of one node of the level above
AddEdge0(acc, nid, below) ==
    LET e0 == acc.above[nid].e0
    IN  IF ~IsSome(e0) THEN acc
        ELSE IF Unwrap(e0) \notin DOMAIN below
        THEN [acc EXCEPT !.above[nid].e0 = None]
        ELSE LET e0_edges == <<below[Unwrap(e0)].e0, below[Unwrap(e0)].e1>>
             IN  IF e0_edges \in DOMAIN acc.known
                 THEN [acc EXCEPT !.above[nid].e0 = Some(acc.known[e0_edges])]
                 ELSE [acc EXCEPT
                         !.nodes = Insert(acc.nodes, Unwrap(e0), Node(e0_edges[1], e0_edges[2])),
                         !.known = Insert(acc.known, e0_edges, Unwrap(e0))]

\* an add that leaves the edges of the child of a 1-edge as they are
AddEdge1Unflipped(acc, nid, below, bdd_id) ==
    LET e1 == acc.above[nid].e1
    IN  IF ~IsSome(e1) THEN acc
        ELSE IF Unwrap(e1) \notin DOMAIN below
        THEN [acc EXCEPT !.above[nid].e1 = None]
        ELSE LET e1_edges == <<below[Unwrap(e1)].e0, below[Unwrap(e1)].e1>>
                 new_id   == GlobalId(acc.next_id + 1, bdd_id)
             IN  IF e1_edges \in DOMAIN acc.known
                 THEN [acc EXCEPT !.above[nid].e1 = Some(acc.known[e1_edges])]
                 ELSE [above   |-> [acc.above EXCEPT ![nid].e1 = Some(new_id)],
                       nodes   |-> Insert(acc.nodes, new_id, Node(e1_edges[1], e1_edges[2])),
                       known   |-> Insert(acc.known, e1_edges, new_id),
                       next_id |-> acc.next_id + 1]

\* add, the 1-edge of one node of the level above: the child has its edges flipped
AddEdge1(acc, nid, below, bdd_id) ==
    LET e1 == acc.above[nid].e1
    IN  IF ~IsSome(e1) THEN acc
        ELSE IF Unwrap(e1) \notin DOMAIN below
        THEN [acc EXCEPT !.above[nid].e1 = None]
        ELSE LET e1_edges == <<below[Unwrap(e1)].e1, below[Unwrap(e1)].e0>>
                 new_id   == GlobalId(acc.next_id + 1, bdd_id)
             IN  IF e1_edges \in DOMAIN acc.known
                 THEN [acc EXCEPT !.above[nid].e1 = Some(acc.known[e1_edges])]
                 ELSE [above   |-> [acc.above EXCEPT ![nid].e1 = Some(new_id)],
                       nodes   |-> Insert(acc.nodes, new_id, Node(e1_edges[1], e1_edges[2])),
                       known   |-> Insert(acc.known, e1_edges, new_id),
                       next_id |-> acc.next_id + 1]

RECURSIVE AddLoop(_, _, _, _)
AddLoop(acc, order, below, bdd_id) ==
    IF order = << >> THEN acc
    ELSE AddLoop(AddEdge1(AddEdge0(acc, Head(order), below), Head(order), below, bdd_id),
                 Tail(order), below, bdd_id)

\* Bdd::add
add(bdd, level_index_above, level_index_below) ==
    IF bdd.panicked THEN bdd
    ELSE IF ~(level_index_above < level_index_below)
            \/ level_index_below > get_sink_level_index(bdd)
    THEN Panic(bdd)
    ELSE
    LET swapped == SwapDown(bdd, level_index_above, level_index_below - 1)
        a       == level_index_below - 1
        above   == Lv(swapped, a)
        below   == Lv(swapped, level_index_below)
        init    == [above |-> above.nodes, nodes |-> EmptyMap, known |-> EmptyMap,
                    next_id |-> swapped.next_id]
        acc     == AddLoop(init, IterOrder(DOMAIN above.nodes), below.nodes, bdd.id)
    IN  [swapped EXCEPT !.next_id = acc.next_id,
                        !.levels[a + 1] = Level(above.lhs, acc.above),
                        !.levels[level_index_below + 1] =
                            Level(Xor(below.lhs, above.lhs), acc.nodes)]

\* an edge, kept when it leads to a key of nodes and dropped otherwise
ValidEdge(e, nodes) == IF IsSome(e) /\ Unwrap(e) \in DOMAIN nodes THEN e ELSE None

RECURSIVE remove_all_dead_ends_start(_, _)
\* Bdd::remove_all_dead_ends_start
remove_all_dead_ends_start(bdd, start) ==
    IF bdd.panicked \/ start < 0 THEN bdd
    ELSE IF start + 1 > get_sink_level_index(bdd) THEN Panic(bdd)
    ELSE
    LET above     == Lv(bdd, start).nodes
        below     == Lv(bdd, start + 1).nodes
        checked   == Table([n \in DOMAIN above |->
                         Node(ValidEdge(above[n].e0, below), ValidEdge(above[n].e1, below))])
        to_remove == {n \in DOMAIN above : checked[n].e0 = None /\ checked[n].e1 = None}
    IN  IF to_remove = {} THEN SetNodes(bdd, start, checked)
        ELSE remove_all_dead_ends_start(
                 SetNodes(bdd, start, Without(checked, to_remove)), start - 1)

\* the edges of the nodes of a level
EdgeSet(nodes) == UNION {nodes[n].e0 \cup nodes[n].e1 : n \in DOMAIN nodes}

RECURSIVE RemoveOrphansLoop(_, _, _)
\* Level::remove_orphans, the pass over the nodes: acc holds the set parents
\* and the set to_remove
RemoveOrphansLoop(acc, order, nodes) ==
    IF order = << >> THEN acc
    ELSE LET id == Head(order)
         IN  RemoveOrphansLoop(
                 IF id \in acc.parents
                 THEN [acc EXCEPT !.parents =
                          (acc.parents \ {id}) \cup nodes[id].e0 \cup nodes[id].e1]
                 ELSE [acc EXCEPT !.to_remove = acc.to_remove \cup {id}],
                 Tail(order), nodes)

RECURSIVE RemoveOrphansFrom(_, _, _)
\* Bdd::remove_orphans_start, the loop over the levels i .. sink - 1
RemoveOrphansFrom(bdd, i, parents) ==
    IF i >= get_sink_level_index(bdd) THEN bdd
    ELSE LET nodes == Lv(bdd, i).nodes
             acc   == RemoveOrphansLoop([parents |-> parents, to_remove |-> {}],
                                        IterOrder(DOMAIN nodes), nodes)
         IN  IF acc.to_remove = {} THEN bdd
             ELSE RemoveOrphansFrom(SetNodes(bdd, i, Without(nodes, acc.to_remove)),
                                    i + 1, acc.parents)

\* Bdd::remove_orphans_start
remove_orphans_start(bdd, start) ==
    IF bdd.panicked THEN bdd
    ELSE IF start = 0 \/ start - 1 > get_sink_level_index(bdd) THEN Panic(bdd)
    ELSE RemoveOrphansFrom(bdd, start, EdgeSet(Lv(bdd, start - 1).nodes))

\* an edge redirected by a map from old ids to new ids
Redirect(e, map) == IF IsSome(e) /\ Unwrap(e) \in DOMAIN map THEN Some(map[Unwrap(e)]) ELSE e

\* Bdd::point_all_parents_to_new_level_map: the levels level_start .. level_max - 1
point_all_parents_to_new_level_map(bdd, map, level_start, level_max) ==
    [bdd EXCEPT !.levels =
        Table([k \in 1 .. Len(bdd.levels) |->
            IF level_start <= k - 1 /\ k - 1 < level_max
            THEN Level(bdd.levels[k].lhs,
                       Table([n \in DOMAIN bdd.levels[k].nodes |->
                           Node(Redirect(bdd.levels[k].nodes[n].e0, map),
                                Redirect(bdd.levels[k].nodes[n].e1, map))]))
            ELSE bdd.levels[k]])]

RECURSIVE MergeLoop(_, _, _)
\* merge_equals_node_start, the pass over the nodes of one level: acc holds
\* known_functions and map
MergeLoop(acc, order, nodes) ==
    IF order = << >> THEN acc
    ELSE LET id   == Head(order)
             pair == <<nodes[id].e0, nodes[id].e1>>
         IN  MergeLoop(
                 IF pair \in DOMAIN acc.known
                 THEN [acc EXCEPT !.map = Insert(acc.map, id, acc.known[pair])]
                 ELSE [acc EXCEPT !.known = Insert(acc.known, pair, id)],
                 Tail(order), nodes)

RECURSIVE MergeFrom(_, _)
\* merge_equals_node_start, the loop: while changed && level_index > 1
MergeFrom(bdd, level_index) ==
    IF level_index <= 1 THEN bdd
    ELSE LET nodes  == Lv(bdd, level_index).nodes
             acc    == MergeLoop([known |-> EmptyMap, map |-> EmptyMap],
                                 IterOrder(DOMAIN nodes), nodes)
             merged == SetNodes(
                           point_all_parents_to_new_level_map(
                               bdd, acc.map, level_index - 1, level_index),
                           level_index, Without(nodes, DOMAIN acc.map))
         IN  IF DOMAIN acc.map = {} THEN merged
             ELSE MergeFrom(merged, level_index - 1)

RECURSIVE MergeRanOut(_, _)
\* merge_equals_node_start: whether the loop ends with changed still true,
\* that is on level_index > 1 alone
MergeRanOut(bdd, level_index) ==
    IF level_index <= 1 THEN TRUE
    ELSE LET nodes  == Lv(bdd, level_index).nodes
             acc    == MergeLoop([known |-> EmptyMap, map |-> EmptyMap],
                                 IterOrder(DOMAIN nodes), nodes)
             merged == SetNodes(
                           point_all_parents_to_new_level_map(
                               bdd, acc.map, level_index - 1, level_index),
                           level_index, Without(nodes, DOMAIN acc.map))
         IN  IF DOMAIN acc.map = {} THEN FALSE
             ELSE MergeRanOut(merged, level_index - 1)

\* Bdd::merge_equals_node_start
merge_equals_node_start(bdd, level_index) ==
    IF bdd.panicked THEN bdd
    ELSE IF level_index > get_sink_level_index(bdd) THEN Panic(bdd)
    ELSE MergeFrom(bdd, level_index)

\* a drop that removes the level above the sink, whatever the level named
DropLastLevel(bdd, level_index) ==
    IF bdd.panicked THEN bdd
    ELSE IF get_levels_size(bdd) < 2 \/ level_index > get_levels_size(bdd) - 2
    THEN Panic(bdd)
    ELSE
    LET last_index == get_levels_size(bdd) - 2
        sink       == Lv(bdd, last_index + 1).nodes
        sink_id    == Head(IterOrder(DOMAIN sink))
        parents    == Lv(bdd, last_index - 1).nodes
        connected  ==
            IF last_index # 0 /\ DOMAIN sink # {}
            THEN SetNodes(bdd, last_index - 1,
                     Table([n \in DOMAIN parents |->
                         Node(IF IsSome(parents[n].e0) THEN Some(sink_id) ELSE None,
                              IF IsSome(parents[n].e1) THEN Some(sink_id) ELSE None)]))
            ELSE bdd
        removed    == [connected EXCEPT !.levels = RemoveAt(connected.levels, last_index + 1)]
    IN  IF last_index > 1 THEN merge_equals_node_start(removed, last_index - 1)
        ELSE removed

\* Bdd::drop
drop(bdd, level_index) ==
    IF bdd.panicked THEN bdd
    ELSE IF get_levels_size(bdd) < 2 \/ level_index > get_levels_size(bdd) - 2
    THEN Panic(bdd)
    ELSE
    LET last_index == get_levels_size(bdd) - 2
        swapped    == SwapDown(bdd, level_index, last_index)
        sink       == Lv(swapped, last_index + 1).nodes
        sink_id    == Head(IterOrder(DOMAIN sink))
        parents    == Lv(swapped, last_index - 1).nodes
        connected  ==
            IF last_index # 0 /\ DOMAIN sink # {}
            THEN SetNodes(swapped, last_index - 1,
                     Table([n \in DOMAIN parents |->
                         Node(IF IsSome(parents[n].e0) THEN Some(sink_id) ELSE None,
                              IF IsSome(parents[n].e1) THEN Some(sink_id) ELSE None)]))
            ELSE swapped
        removed    == [connected EXCEPT !.levels = RemoveAt(connected.levels, last_index + 1)]
    IN  IF last_index > 1 THEN merge_equals_node_start(removed, last_index - 1)
        ELSE removed

\* Bdd::absorb_source
absorb_source(bdd, edge) ==
    LET source == Lv(bdd, 0).nodes
    IN  IF DOMAIN source = {} \/ get_levels_size(bdd) < 2 THEN Panic(bdd)
        ELSE
        LET order   == IterOrder(DOMAIN source)
            node    == source[order[Len(order)]]
            wrong   == IF node.e0 # node.e1
                       THEN (IF ~edge THEN node.e1 ELSE node.e0)
                       ELSE None
            level1  == Without(Lv(bdd, 1).nodes, wrong)
            removed == [bdd EXCEPT !.levels =
                           RemoveAt([bdd.levels EXCEPT ![2].nodes = level1], 1)]
        IN  IF DOMAIN level1 = {} THEN Panic(removed)
            ELSE remove_orphans_start(removed, 1)

\* Bdd::absorb
absorb(bdd, level_index, edge) ==
    IF bdd.panicked THEN bdd
    ELSE IF level_index > get_sink_level_index(bdd) THEN Panic(bdd)
    ELSE IF level_index = 0 THEN absorb_source(bdd, edge)
    ELSE
    LET nodes     == Lv(bdd, level_index).nodes
        along     == Table([n \in DOMAIN nodes |-> IF edge THEN nodes[n].e1 ELSE nodes[n].e0])
        keys      == {n \in DOMAIN nodes : IsSome(along[n])}
        new_level == Table([n \in keys |-> Unwrap(along[n])])
        pointed   == point_all_parents_to_new_level_map(
                         bdd, new_level, level_index - 1, level_index)
        removed   == [pointed EXCEPT !.levels = RemoveAt(pointed.levels, level_index + 1)]
    IN  IF keys = {} THEN Panic(bdd)
        ELSE merge_equals_node_start(
                 remove_orphans_start(
                     remove_all_dead_ends_start(removed, level_index - 1),
                     level_index),
                 level_index - 1)

---------------------------------------------------------------------------
(* Linear equations found in, and substituted into, a Bdd *)

\* LinEq::new
LinEq(lhs, rhs) == [lhs |-> lhs, rhs |-> rhs]

\* LinEq::add_lin_eq
add_lin_eq(eq, other) == LinEq(Xor(eq.lhs, other.lhs), eq.rhs # other.rhs)

RECURSIVE CheckEdgesLoop(_, _, _, _)
CheckEdgesLoop(has_zero_edge, has_one_edge, order, nodes) ==
    IF order = << >> THEN <<has_zero_edge, has_one_edge>>
    ELSE LET z == has_zero_edge \/ IsSome(nodes[Head(order)].e0)
             o == has_one_edge \/ IsSome(nodes[Head(order)].e1)
         IN  IF z = o THEN <<z, o>> ELSE CheckEdgesLoop(z, o, Tail(order), nodes)

\* Level::check_outgoing_edges
check_outgoing_edges(level) ==
    CheckEdgesLoop(FALSE, FALSE, IterOrder(DOMAIN level.nodes), level.nodes)

\* a pass that leaves the levels in which every node has only a 0-edge
ScanKindOneOnly(level) ==
    IF level.lhs = {} THEN "zero"
    ELSE IF ~check_outgoing_edges(level)[1] THEN "one"
    ELSE "none"

\* scan_absorb_lin_eq, what the pass over the levels does at level i:
\* "zero" absorbs without an equation, "one" and "nil" absorb with one
ScanKind(level) ==
    IF level.lhs = {} THEN "zero"
    ELSE IF ~check_outgoing_edges(level)[1] THEN "one"
    ELSE IF ~check_outgoing_edges(level)[2] THEN "nil"
    ELSE "none"

RECURSIVE ScanLoop(_, _)
ScanLoop(bdd, lin_eqs_absorbed) ==
    IF bdd.panicked THEN [bdd |-> bdd, lin_eqs |-> lin_eqs_absorbed]
    ELSE
    LET found == {i \in 0 .. (get_levels_size(bdd) - 2) : ScanKind(Lv(bdd, i)) # "none"}
    IN  IF found = {} THEN [bdd |-> bdd, lin_eqs |-> lin_eqs_absorbed]
        ELSE LET i     == SetMin(found)
                 level == Lv(bdd, i)
                 kind  == ScanKind(level)
             IN  IF kind = "zero" THEN ScanLoop(absorb(bdd, i, FALSE), lin_eqs_absorbed)
                 ELSE ScanLoop(absorb(bdd, i, kind = "one"),
                               Append(lin_eqs_absorbed, LinEq(level.lhs, kind = "one")))

\* Bdd::scan_absorb_lin_eq
scan_absorb_lin_eq(bdd) == ScanLoop(bdd, << >>)

RECURSIVE AbsorbAll(_, _)
\* replace_var_in_bdd, the absorption of the levels to_absorbe, last first
AbsorbAll(bdd, to_absorbe) ==
    IF to_absorbe = {} THEN bdd
    ELSE AbsorbAll(absorb(bdd, SetMax(to_absorbe), FALSE),
                   to_absorbe \ {SetMax(to_absorbe)})

\* Bdd::replace_var_in_bdd
replace_var_in_bdd(bdd, var, eq) ==
    IF bdd.panicked THEN bdd
    ELSE
    LET replaced == Table([k \in 1 .. Len(bdd.levels) |->
                        LET level == bdd.levels[k]
                        IN  IF var \in level.lhs
                            THEN Level(Xor(level.lhs, eq.lhs),
                                       IF eq.rhs
                                       THEN Table([n \in DOMAIN level.nodes |->
                                                flip_edges(level.nodes[n])])
                                       ELSE level.nodes)
                            ELSE level])
        to_absorbe == {k - 1 : k \in {j \in 1 .. Len(bdd.levels) :
                          var \in bdd.levels[j].lhs /\ replaced[j].lhs = {}}}
    IN  AbsorbAll([bdd EXCEPT !.levels = replaced], to_absorbe)

\* merge_sink_source without the edges of the source given to the sink
MergeSinkSourceUnlinked(bdd, sink_level_index) ==
    IF bdd.panicked THEN bdd
    ELSE IF sink_level_index + 1 > get_sink_level_index(bdd) THEN Panic(bdd)
    ELSE LET merged == [bdd EXCEPT !.levels[sink_level_index + 1].lhs =
                           Lv(bdd, sink_level_index + 1).lhs]
         IN  [merged EXCEPT !.levels = RemoveAt(merged.levels, sink_level_index + 2)]

\* Bdd::merge_sink_source
merge_sink_source(bdd, sink_level_index) ==
    IF bdd.panicked THEN bdd
    ELSE IF sink_level_index + 1 > get_sink_level_index(bdd) THEN Panic(bdd)
    ELSE
    LET source_level == Lv(bdd, sink_level_index + 1)
        sink_level   == Lv(bdd, sink_level_index)
        source       == source_level.nodes[Head(IterOrder(DOMAIN source_level.nodes))]
        sink_id      == Head(IterOrder(DOMAIN sink_level.nodes))
        sink         == sink_level.nodes[sink_id]
        connected    == IF DOMAIN sink_level.nodes = {} THEN sink_level.nodes
                        ELSE [sink_level.nodes EXCEPT ![sink_id] =
                                 Node(IF IsSome(source.e0) THEN source.e0 ELSE sink.e0,
                                      IF IsSome(source.e1) THEN source.e1 ELSE sink.e1)]
        merged       == IF DOMAIN source_level.nodes = {} THEN bdd
                        ELSE [bdd EXCEPT !.levels[sink_level_index + 1] =
                                 Level(source_level.lhs, connected)]
    IN  [merged EXCEPT !.levels = RemoveAt(merged.levels, sink_level_index + 2)]

---------------------------------------------------------------------------
(* LinBank and System.  A call on the System yields the new bdds, the new   *)
(* lin_bank, and the Result it returns: result is "ok" or "err", value is   *)
(* what an Ok carries.                                                       *)

\* a pass over the bank that leaves the equation as it was given
ReduceNothing(lin_eq, lin_eqs) == lin_eq

RECURSIVE ReduceLoop(_, _)
\* LinBank::push_lin_eq, the pass over the equations of the bank
ReduceLoop(lin_eq, lin_eqs) ==
    IF lin_eqs = << >> THEN lin_eq
    ELSE ReduceLoop(
             IF Unwrap(get_max_set_bit(Head(lin_eqs).lhs)) \in lin_eq.lhs
             THEN add_lin_eq(lin_eq, Head(lin_eqs))
             ELSE lin_eq,
             Tail(lin_eqs))

\* a push that stores the equation as given, unless its lhs is zero
PushUnreduced(lin_eqs, lin_eq) ==
    IF IsSome(get_max_set_bit(lin_eq.lhs))
    THEN [lin_eqs |-> Append(lin_eqs, lin_eq), pushed |-> Some(lin_eq)]
    ELSE [lin_eqs |-> lin_eqs, pushed |-> None]

\* LinBank::push_lin_eq
push_lin_eq(lin_eqs, lin_eq) ==
    LET reduced == ReduceLoop(lin_eq, lin_eqs)
    IN  IF IsSome(get_max_set_bit(reduced.lhs))
        THEN [lin_eqs |-> Append(lin_eqs, reduced), pushed |-> Some(reduced)]
        ELSE [lin_eqs |-> lin_eqs, pushed |-> None]

\* some Bdd of the System met a panic! of the program
SomePanicked(b) == \E id \in DOMAIN b : b[id].panicked

\* what a call on the System leaves and returns
Ret(b, l, result, value) == [bdds |-> b, lin_bank |-> l, result |-> result, value |-> value]

\* System::push_lin_eq_to_lin_bank
push_lin_eq_to_lin_bank(b, l, lin_eq) ==
    LET r == push_lin_eq(l, lin_eq)
    IN  IF IsSome(r.pushed)
        THEN LET eq  == Unwrap(r.pushed)
                 var == Unwrap(get_max_set_bit(eq.lhs))
             IN  [bdds     |-> Table([id \in DOMAIN b |-> replace_var_in_bdd(b[id], var, eq)]),
                  lin_bank |-> r.lin_eqs,
                  pushed   |-> r.pushed]
        ELSE [bdds |-> b, lin_bank |-> l, pushed |-> None]

\* System::join_bdds
join_bdds(b, l, bdd_1_id, bdd_2_id) ==
    IF bdd_1_id = bdd_2_id \/ bdd_1_id \notin DOMAIN b \/ bdd_2_id \notin DOMAIN b
    THEN Ret(b, l, "err", 0)
    ELSE LET bdd_1         == b[bdd_1_id]
             sink_level_id == get_sink_level_index(bdd_1)
             joined        == [bdd_1 EXCEPT !.levels = bdd_1.levels \o b[bdd_2_id].levels]
         IN  Ret(Insert(Without(b, {bdd_1_id, bdd_2_id}), bdd_1_id,
                        merge_sink_source(joined, sink_level_id)),
                 l, "ok", bdd_1_id)

\* System::swap
system_swap(b, l, bdd_id, level_index_above, level_index_below) ==
    IF level_index_below # level_index_above + 1 THEN Ret(b, l, "err", 0)
    ELSE IF bdd_id \notin DOMAIN b THEN Ret(b, l, "err", 0)
    ELSE IF level_index_below >= get_sink_level_index(b[bdd_id]) THEN Ret(b, l, "err", 0)
    ELSE Ret([b EXCEPT ![bdd_id] = swap(b[bdd_id], level_index_above, level_index_below)],
             l, "ok", 0)

\* System::add
system_add(b, l, bdd_id, level_index_above, level_index_below) ==
    IF level_index_above >= level_index_below THEN Ret(b, l, "err", 0)
    ELSE IF bdd_id \notin DOMAIN b THEN Ret(b, l, "err", 0)
    ELSE IF level_index_below >= get_sink_level_index(b[bdd_id]) THEN Ret(b, l, "err", 0)
    ELSE Ret([b EXCEPT ![bdd_id] = add(b[bdd_id], level_index_above, level_index_below)],
             l, "ok", 0)

\* System::absorb
system_absorb(b, l, bdd_id, level_index, edge) ==
    IF bdd_id \notin DOMAIN b THEN Ret(b, l, "err", 0)
    ELSE IF level_index >= get_sink_level_index(b[bdd_id]) THEN Ret(b, l, "err", 0)
    ELSE Ret([b EXCEPT ![bdd_id] = absorb(b[bdd_id], level_index, edge)], l, "ok", 0)

\* a drop that does not look at the range of the levels
SystemDropUnchecked(b, l, bdd_id, level_index) ==
    IF bdd_id \notin DOMAIN b THEN Ret(b, l, "err", 0)
    ELSE Ret([b EXCEPT ![bdd_id] = drop(b[bdd_id], level_index)], l, "ok", 0)

\* System::drop
system_drop(b, l, bdd_id, level_index) ==
    IF bdd_id \notin DOMAIN b THEN Ret(b, l, "err", 0)
    ELSE IF level_index >= get_sink_level_index(b[bdd_id]) THEN Ret(b, l, "err", 0)
    ELSE Ret([b EXCEPT ![bdd_id] = drop(b[bdd_id], level_index)], l, "ok", 0)

\* System::fix: lhs is the set of the variables of the Vec<usize> given
fix(b, l, lhs, rhs) ==
    LET r == push_lin_eq_to_lin_bank(b, l, LinEq(lhs, rhs))
    IN  Ret(r.bdds, r.lin_bank, IF IsSome(r.pushed) THEN "ok" ELSE "err", 0)

RECURSIVE PushAll(_, _, _, _)
\* scan_absorb_lin_eqs, the loop pushing the equations found
PushAll(b, l, lin_eqs, absorbed) ==
    IF lin_eqs = << >> THEN Ret(b, l, "ok", absorbed)
    ELSE LET r == push_lin_eq_to_lin_bank(b, l, Head(lin_eqs))
         IN  PushAll(r.bdds, r.lin_bank, Tail(lin_eqs),
                     IF IsSome(r.pushed) THEN absorbed + 1 ELSE absorbed)

\* System::scan_absorb_lin_eqs
scan_absorb_lin_eqs(b, l, bdd_id) ==
    IF bdd_id \notin DOMAIN b THEN Ret(b, l, "err", 0)
    ELSE LET r == scan_absorb_lin_eq(b[bdd_id])
         IN  PushAll([b EXCEPT ![bdd_id] = r.bdd], l, r.lin_eqs, 0)

---------------------------------------------------------------------------
(* algebra: matrices over GF(2).  The rows of a Matrix are numbered from 0; *)
(* a row is the set of the columns where it has a 1.                        *)

\* Vec::swap on the rows of a Matrix
SwapRows(rows, i, j) ==
    Table([k \in DOMAIN rows |->
              IF k = i THEN rows[j] ELSE IF k = j THEN rows[i] ELSE rows[k]])

RECURSIVE PickRow(_, _, _, _)
\* the search, through the rows j, j - 1, .. 0, of the row with the highest
\* set bit: a row takes over when its highest bit is above the one held
PickRow(rows, j, highest_set_bit, max_row) ==
    IF j < 0 THEN [highest_set_bit |-> highest_set_bit, max_row |-> max_row]
    ELSE IF IsSome(get_max_set_bit(rows[j]))
            /\ (~IsSome(highest_set_bit)
                \/ Unwrap(get_max_set_bit(rows[j])) > Unwrap(highest_set_bit))
         THEN PickRow(rows, j - 1, get_max_set_bit(rows[j]), j)
         ELSE PickRow(rows, j - 1, highest_set_bit, max_row)

\* row i added to the rows above it (j < i) that have the highest set bit of
\* pivots[i]; rows may be the matrix pivots itself or a matrix that follows it
AddPivot(rows, pivots, i) ==
    Table([j \in DOMAIN rows |->
              IF j < i /\ get_max_set_bit(pivots[j]) = get_max_set_bit(pivots[i])
              THEN Xor(rows[j], rows[i]) ELSE rows[j]])

\* algebra::identity
identity(n) == Table([i \in 0 .. (n - 1) |-> {i}])

RECURSIVE ExtractGauss(_, _, _, _)
\* extract_linear_dependencies, the first loop: i runs from the last row up
ExtractGauss(mat, id, i, loop_id) ==
    IF i < 0 THEN [id |-> id, loop_id |-> loop_id]
    ELSE LET pick == PickRow(mat, i - 1, get_max_set_bit(mat[i]), i)
             m1   == SwapRows(mat, i, pick.max_row)
             id1  == SwapRows(id, i, pick.max_row)
         IN  IF ~IsSome(pick.highest_set_bit) THEN [id |-> id, loop_id |-> loop_id]
             ELSE ExtractGauss(AddPivot(m1, m1, i), AddPivot(id1, m1, i), i - 1, i)

RECURSIVE ReduceUp(_, _)
\* extract_linear_dependencies, the second loop, on the dependencies alone
ReduceUp(id, i) ==
    IF i < 0 THEN id
    ELSE LET pick == PickRow(id, i - 1, get_max_set_bit(id[i]), i)
             id1  == SwapRows(id, i, pick.max_row)
         IN  IF ~IsSome(pick.highest_set_bit) THEN id
             ELSE ReduceUp(AddPivot(id1, id1, i), i - 1)

RECURSIVE ReduceDown(_, _)
\* extract_linear_dependencies, the third loop: yields the rows, and whether
\* the unwrap of the highest set bit of an all-zero row aborted
ReduceDown(id, i) ==
    IF i \notin DOMAIN id THEN [rows |-> id, panicked |-> FALSE]
    ELSE IF (i + 1) \in DOMAIN id /\ ~IsSome(get_max_set_bit(id[i]))
    THEN [rows |-> id, panicked |-> TRUE]
    ELSE ReduceDown(
             Table([j \in DOMAIN id |->
                       IF j > i /\ Unwrap(get_max_set_bit(id[i])) \in id[j]
                       THEN Xor(id[j], id[i]) ELSE id[j]]),
             i + 1)

\* algebra::extract_linear_dependencies, for the matrix with the rows mat
extract_linear_dependencies(mat) ==
    LET n     == Cardinality(DOMAIN mat)
        gauss == ExtractGauss(mat, identity(n), n - 1, 0)
        kept  == Table([i \in 0 .. (gauss.loop_id - 1) |-> gauss.id[i]])
    IN  ReduceDown(ReduceUp(kept, gauss.loop_id - 1), 0)

RECURSIVE SolveGauss(_, _, _)
\* solve_linear_system, the first loop
SolveGauss(lhs, rhs, i) ==
    IF i < 0 THEN [lhs |-> lhs, rhs |-> rhs]
    ELSE LET pick == PickRow(lhs, i - 1, get_max_set_bit(lhs[i]), i)
             l1   == SwapRows(lhs, i, pick.max_row)
             r1   == SwapRows(rhs, i, pick.max_row)
         IN  IF ~IsSome(pick.highest_set_bit) THEN [lhs |-> lhs, rhs |-> rhs]
             ELSE SolveGauss(
                      AddPivot(l1, l1, i),
                      Table([j \in DOMAIN r1 |->
                                IF j < i /\ get_max_set_bit(l1[j]) = get_max_set_bit(l1[i])
                                THEN r1[i] # r1[j] ELSE r1[j]]),
                      i - 1)

\* the matrix left as the first loop gave it
SolveDownSkipped(lhs, rhs, i) == [lhs |-> lhs, rhs |-> rhs, panicked |-> FALSE]

RECURSIVE SolveDown(_, _, _)
\* solve_linear_system, the second loop
SolveDown(lhs, rhs, i) ==
    IF i \notin DOMAIN lhs THEN [lhs |-> lhs, rhs |-> rhs, panicked |-> FALSE]
    ELSE IF (i + 1) \in DOMAIN lhs /\ ~IsSome(get_max_set_bit(lhs[i]))
    THEN [lhs |-> lhs, rhs |-> rhs, panicked |-> TRUE]
    ELSE LET hit(j) == j > i /\ Unwrap(get_max_set_bit(lhs[i])) \in lhs[j]
         IN  SolveDown(
                 Table([j \in DOMAIN lhs |-> IF hit(j) THEN Xor(lhs[j], lhs[i]) ELSE lhs[j]]),
                 Table([j \in DOMAIN rhs |-> IF hit(j) THEN rhs[i] # rhs[j] ELSE rhs[j]]),
                 i + 1)

RECURSIVE ReadSolutions(_, _, _, _)
\* solve_linear_system, the last loop: a row with one set bit fixes a variable
ReadSolutions(solutions, lhs, rhs, index_row) ==
    IF index_row \notin DOMAIN lhs THEN solutions
    ELSE ReadSolutions(
             IF lhs[index_row] # {} /\ SetMin(lhs[index_row]) = SetMax(lhs[index_row])
             THEN [solutions EXCEPT ![SetMin(lhs[index_row])] = Some(rhs[index_row])]
             ELSE solutions,
             lhs, rhs, index_row + 1)

\* algebra::solve_linear_system, for the matrix with the rows lhs, of
\* column_size columns: the solutions, and whether the call aborted
solve_linear_system(lhs, rhs, column_size) ==
    LET n     == Cardinality(DOMAIN lhs)
        gauss == SolveGauss(lhs, rhs, n - 1)
        down  == SolveDown(gauss.lhs, gauss.rhs, 0)
    IN  [solutions |-> IF down.panicked THEN << >>
                       ELSE ReadSolutions(Table([c \in 0 .. (column_size - 1) |-> None]),
                                          down.lhs, down.rhs, 0),
         panicked  |-> down.panicked]

---------------------------------------------------------------------------
(* Counting the paths of a Bdd.  The weights are u128 in the program; the  *)
(* Bdds here have far fewer than 2^128 paths, so overflowing_add never     *)
(* overflows.                                                              *)

\* a weight read without the 0 of the sink turned into 1
ChildWeightRaw(e, previous_level_weigths) ==
    IF e = None THEN 0
    ELSE IF Unwrap(e) \notin DOMAIN previous_level_weigths THEN 0
    ELSE previous_level_weigths[Unwrap(e)]

\* count_paths, the weight that an edge brings to its node
ChildWeight(e, previous_level_weigths) ==
    IF e = None THEN 0
    ELSE IF Unwrap(e) \notin DOMAIN previous_level_weigths THEN 0
    ELSE IF previous_level_weigths[Unwrap(e)] = 0 THEN 1
    ELSE previous_level_weigths[Unwrap(e)]

RECURSIVE CountLoop(_, _, _)
\* count_paths, the loop over the levels, from the last one up to level 0
CountLoop(bdd, i, previous_level_weigths) ==
    IF i < 0 THEN previous_level_weigths
    ELSE CountLoop(bdd, i - 1,
             Table([id \in DOMAIN Lv(bdd, i).nodes |->
                 ChildWeight(Lv(bdd, i).nodes[id].e0, previous_level_weigths)
                 + ChildWeight(Lv(bdd, i).nodes[id].e1, previous_level_weigths)]))

\* the weight of the node that the map of the first level yields first
FirstWeight(weigths) ==
    IF DOMAIN weigths = {} THEN [value |-> 0, panicked |-> TRUE]
    ELSE [value |-> weigths[Head(IterOrder(DOMAIN weigths))], panicked |-> FALSE]

\* Bdd::count_paths
count_paths(bdd) ==
    IF Len(bdd.levels) < 2 THEN [value |-> 0, panicked |-> FALSE]
    ELSE FirstWeight(CountLoop(bdd, get_sink_level_index(bdd), EmptyMap))

---------------------------------------------------------------------------
(* Reading the solutions off a System *)

\* the number of paths after which get_all_valid_path stops looking
PathCap == 20

\* the call that left r failed: it returned an Err (the ? of the program
\* returns it), or the program aborted
Failed(r) == r.result # "ok" \/ SomePanicked(r.bdds)

\* Bdd::get_lhs: the lhs of the levels above the sink
get_lhs(bdd) == Table([i \in 1 .. (Len(bdd.levels) - 1) |-> bdd.levels[i].lhs])

RECURSIVE Sum(_)
\* Iterator::sum
Sum(s) == IF s = << >> THEN 0 ELSE Head(s) + Sum(Tail(s))

\* the number of nodes of every level of the Bdd (Level::get_nodes_len)
NodesLen(bdd) == Table([i \in 1 .. Len(bdd.levels) |-> Cardinality(DOMAIN bdd.levels[i].nodes)])

\* Bdd::get_size
get_size(bdd) == Sum(NodesLen(bdd))

\* Iterator::skip and Iterator::take on a sequence
Skip(s, n) == IF n >= Len(s) THEN << >> ELSE SubSeq(s, n + 1, Len(s))
Take(s, n) == IF n >= Len(s) THEN s ELSE SubSeq(s, 1, n)

RECURSIVE Walk(_, _, _, _)
\* get_all_valid_path, from a node of level level_index reached by path: the
\* paths through its 0-edge come before those through its 1-edge; a child
\* that is not in the next level leaves the walk on the same node
Walk(bdd, path, level_index, node) ==
    IF node.e0 = None /\ node.e1 = None THEN [paths |-> <<path>>, panicked |-> FALSE]
    ELSE IF level_index >= get_sink_level_index(bdd)
    THEN [paths |-> << >>, panicked |-> TRUE]
    ELSE LET below == Lv(bdd, level_index + 1).nodes
             Follow(e, bit) ==
                 IF e = None THEN [paths |-> << >>, panicked |-> FALSE]
                 ELSE Walk(bdd, Append(path, LinEq(Lv(bdd, level_index).lhs, bit)),
                           level_index + 1,
                           IF Unwrap(e) \in DOMAIN below THEN below[Unwrap(e)] ELSE node)
             zero == Follow(node.e0, FALSE)
             one  == Follow(node.e1, TRUE)
         IN  [paths |-> zero.paths \o one.paths,
              panicked |-> zero.panicked \/ one.panicked]

\* Bdd::get_all_valid_path
get_all_valid_path(bdd) ==
    IF get_sink_level_index(bdd) = 0 THEN [paths |-> << << >> >>, panicked |-> FALSE]
    ELSE IF DOMAIN Lv(bdd, 0).nodes = {} THEN [paths |-> << >>, panicked |-> TRUE]
    ELSE LET source == Lv(bdd, 0).nodes[Head(IterOrder(DOMAIN Lv(bdd, 0).nodes))]
             all    == Walk(bdd, << >>, 0, source)
         IN  IF Len(all.paths) > PathCap
             THEN [paths |-> SubSeq(all.paths, 1, PathCap + 1), panicked |-> FALSE]
             ELSE all

RECURSIVE JoinAll(_, _, _)
\* join_bdds(root, key) for every key, each join unwrapped; r is what the
\* join before left
JoinAll(r, root, keys) ==
    IF r.result # "ok" THEN Ret(r.bdds, r.lin_bank, "panic", 0)
    ELSE IF keys = << >> \/ Failed(r) THEN r
    ELSE JoinAll(join_bdds(r.bdds, r.lin_bank, root, Head(keys)), root, Tail(keys))

RECURSIVE PushPath(_, _)
\* get_solutions: the equations of a path pushed to a copy of the bank
PushPath(lin_eqs, path) ==
    IF path = << >> THEN lin_eqs
    ELSE PushPath(push_lin_eq(lin_eqs, Head(path)).lin_eqs, Tail(path))

\* LinBank::get_lhs and LinBank::get_rhs, as the rows of a matrix
bank_get_lhs(lin_eqs) == Table([i \in 0 .. (Len(lin_eqs) - 1) |-> lin_eqs[i + 1].lhs])
bank_get_rhs(lin_eqs) == Table([i \in 0 .. (Len(lin_eqs) - 1) |-> lin_eqs[i + 1].rhs])

\* Matrix::column_size of the matrix of the lhs of a bank
column_size(lin_eqs) == IF lin_eqs = << >> THEN 0 ELSE NVar

\* solve_linear_system(matrix![lin_bank.get_lhs()], lin_bank.get_rhs())
SolveBank(lin_eqs) ==
    solve_linear_system(bank_get_lhs(lin_eqs), bank_get_rhs(lin_eqs), column_size(lin_eqs))

\* get_solutions: the vectors solved, as what the call returns
Solutions(b, l, solved) ==
    IF \E i \in DOMAIN solved : solved[i].panicked
    THEN Ret(b, l, "panic", << >>)
    ELSE Ret(b, l, "ok", Table([i \in DOMAIN solved |-> solved[i].solutions]))

\* get_solutions: one solve_linear_system for each path found
SolvePaths(b, l, found) ==
    IF found.panicked THEN Ret(b, l, "panic", << >>)
    ELSE Solutions(b, l, Table([i \in 1 .. Len(found.paths) |->
                                   SolveBank(PushPath(l, found.paths[i]))]))

\* get_solutions: the paths of the Bdd that is left once all are joined
SolveJoined(joined, l, remaining_id) ==
    IF Failed(joined) THEN joined
    ELSE SolvePaths(joined.bdds, l, get_all_valid_path(joined.bdds[remaining_id]))

\* System::get_solutions
get_solutions(b, l) ==
    LET keys == IterOrder(DOMAIN b)
    IN  IF keys = << >>
        THEN Solutions(b, l, <<SolveBank(l)>>)
        ELSE SolveJoined(JoinAll(Ret(b, l, "ok", 0), Head(keys), Tail(keys)),
                         l, Head(keys))

---------------------------------------------------------------------------
(* Solver, with the Dependency of cryptapath: NodeRankedDependency.  The   *)
(* levels of an InvolvedBdd are the sizes of its levels above the sink, a   *)
(* sequence indexed from 1; involved_levels holds level indices, from 0.    *)

InvolvedBdd(id, levels, total_size, involved_levels) ==
    [id |-> id, levels |-> levels, total_size |-> total_size,
     involved_levels |-> involved_levels]

\* the last element of a sequence
Last(s) == s[Len(s)]

RECURSIVE FoldMax(_, _, _, _)
\* the fold of best_join_order: the index (from 1) of the first value above
\* all the values before it and above 0; the first index when there is none
FoldMax(vals, i, max_nodes_saved, id_start) ==
    IF i > Len(vals) THEN id_start
    ELSE IF vals[i] > max_nodes_saved THEN FoldMax(vals, i + 1, vals[i], i)
    ELSE FoldMax(vals, i + 1, max_nodes_saved, id_start)

RECURSIVE Shifted(_, _)
\* best_join_order: the involved levels of the Bdds joined in the middle,
\* each moved down by the number of levels joined above it
Shifted(involved_bdds, len_above) ==
    IF involved_bdds = << >> THEN [levels |-> << >>, len_above |-> len_above]
    ELSE LET bdd  == Head(involved_bdds)
             rest == Shifted(Tail(involved_bdds), len_above + Len(bdd.levels))
         IN  [levels |-> Table([k \in DOMAIN bdd.involved_levels |->
                                   bdd.involved_levels[k] + len_above]) \o rest.levels,
              len_above |-> rest.len_above]

\* NodeRankedDependency::best_join_order: the ids to join, and the indices
\* of the levels of the dependency in the Bdd joined
best_join_order(involved_bdds) ==
    IF Len(involved_bdds) = 1
    THEN [ids |-> <<involved_bdds[1].id>>, levels |-> involved_bdds[1].involved_levels]
    ELSE LET start_index == FoldMax(
                 Table([i \in DOMAIN involved_bdds |->
                     Sum(Take(involved_bdds[i].levels,
                              involved_bdds[i].involved_levels[1]))]), 1, 0, 1)
             start       == involved_bdds[start_index]
             after_start == RemoveAt(involved_bdds, start_index)
             end_index   == FoldMax(
                 Table([i \in DOMAIN after_start |->
                     Sum(Skip(after_start[i].levels,
                              Last(after_start[i].involved_levels)))]), 1, 0, 1)
             end         == after_start[end_index]
             all_other   == RemoveAt(after_start, end_index)
             middle      == Shifted(all_other, Len(start.levels))
         IN  [ids    |-> <<start.id>>
                         \o Table([i \in DOMAIN all_other |-> all_other[i].id])
                         \o <<end.id>>,
              levels |-> start.involved_levels \o middle.levels
                         \o Table([k \in DOMAIN end.involved_levels |->
                                      end.involved_levels[k] + middle.len_above])]

\* NodeRankedDependency::minimize_distance
minimize_distance(involved_bdds) ==
    IF Len(involved_bdds) = 1
    THEN IF Len(involved_bdds[1].involved_levels) = 1 THEN 0
         ELSE Sum(Take(Skip(involved_bdds[1].levels, involved_bdds[1].involved_levels[1]),
                       Last(involved_bdds[1].involved_levels)))
    ELSE LET join_order == best_join_order(involved_bdds)
             start      == join_order.ids[1]
             end        == Last(join_order.ids)
         IN  Sum(Table([i \in DOMAIN involved_bdds |->
                    LET bdd == involved_bdds[i]
                    IN  IF bdd.id = start
                        THEN Sum(Skip(bdd.levels, bdd.involved_levels[1]))
                        ELSE IF bdd.id = end
                        THEN Sum(Take(bdd.levels, Last(bdd.involved_levels)))
                        ELSE Sum(bdd.levels)]))

RECURSIVE NextBdd(_, _, _, _, _)
\* extract: the Bdd whose range of rows holds bit, looked for from the k-th on
NextBdd(id_levels_size, bit, k, bdd_start_range, bdd_end_range) ==
    IF bit > bdd_end_range
    THEN NextBdd(id_levels_size, bit, k + 1, bdd_end_range + 1,
                 bdd_end_range + Len(id_levels_size[k + 1].levels))
    ELSE [k |-> k, bdd_start_range |-> bdd_start_range, bdd_end_range |-> bdd_end_range]

RECURSIVE RowBdds(_, _, _, _, _, _, _)
\* extract: the pass over the set bits of a row of the dependencies
RowBdds(bits, id_levels_size, k, bdd_start_range, bdd_end_range, involved, involved_bdds) ==
    LET bdd == id_levels_size[k]
        cut == Append(involved_bdds,
                      InvolvedBdd(bdd.id, bdd.levels, bdd.total_size, involved))
    IN  IF bits = << >> THEN cut
        ELSE IF Head(bits) <= bdd_end_range
        THEN RowBdds(Tail(bits), id_levels_size, k, bdd_start_range, bdd_end_range,
                     Append(involved, Head(bits) - bdd_start_range), involved_bdds)
        ELSE LET next == NextBdd(id_levels_size, Head(bits), k,
                                 bdd_start_range, bdd_end_range)
             IN  RowBdds(Tail(bits), id_levels_size, next.k, next.bdd_start_range,
                         next.bdd_end_range, <<Head(bits) - next.bdd_start_range>>,
                         IF involved # << >> THEN cut ELSE involved_bdds)

RECURSIVE Concat(_)
\* the sequences of a sequence, one after the other
Concat(ss) == IF ss = << >> THEN << >> ELSE Head(ss) \o Concat(Tail(ss))

\* NodeRankedDependency::extract: the dependencies of the System, each the
\* sequence of its involved_bdds, and whether the extraction aborted
extract(b) ==
    LET ids            == IterOrder(DOMAIN b)
        id_levels_size == Table([k \in DOMAIN ids |->
                              [id         |-> ids[k],
                               levels     |-> Take(NodesLen(b[ids[k]]),
                                                   Len(b[ids[k]].levels) - 1),
                               total_size |-> get_size(b[ids[k]])]])
        lhs_concat     == Concat(Table([k \in DOMAIN ids |-> get_lhs(b[ids[k]])]))
        lin_dep        == extract_linear_dependencies(
                              Table([i \in 0 .. (Len(lhs_concat) - 1) |-> lhs_concat[i + 1]]))
    IN  [deps     |-> Table([i \in 1 .. Cardinality(DOMAIN lin_dep.rows) |->
                         RowBdds(SortAsc(lin_dep.rows[i - 1]), id_levels_size, 1, 0,
                                 Len(id_levels_size[1].levels) - 1, << >>, << >>)]),
         panicked |-> lin_dep.panicked]

RECURSIVE FoldMin(_, _, _, _)
\* the fold of pick_best_dep: the index (from 1) of the first dependency
\* with the least distance; min_distance is None for usize::MAX
FoldMin(deps, i, id_dep, min_distance) ==
    IF i > Len(deps) THEN id_dep
    ELSE IF min_distance = None \/ minimize_distance(deps[i]) < Unwrap(min_distance)
    THEN FoldMin(deps, i + 1, i, Some(minimize_distance(deps[i])))
    ELSE FoldMin(deps, i + 1, id_dep, min_distance)

\* Solver::pick_best_dep
pick_best_dep(deps) == best_join_order(deps[FoldMin(deps, 1, 1, None)])

\* system.swap(..)?, system.add(..)? and system.absorb(..)? after the
\* calls that left r: not made when one of those failed
TrySwap(r, bdd_id, level_index_above, level_index_below) ==
    IF Failed(r) THEN r
    ELSE system_swap(r.bdds, r.lin_bank, bdd_id, level_index_above, level_index_below)

TryAdd(r, bdd_id, level_index_above, level_index_below) ==
    IF Failed(r) THEN r
    ELSE system_add(r.bdds, r.lin_bank, bdd_id, level_index_above, level_index_below)

TryAbsorb(r, bdd_id, level_index, edge) ==
    IF Failed(r) THEN r
    ELSE system_absorb(r.bdds, r.lin_bank, bdd_id, level_index, edge)

RECURSIVE ResolveSwaps(_, _, _, _)
\* resolve: swap(j, j + 1) for j from the one given down to lo
ResolveSwaps(r, bdd_root_id, j, lo) ==
    IF j < lo THEN r
    ELSE ResolveSwaps(TrySwap(r, bdd_root_id, j, j + 1), bdd_root_id, j - 1, lo)

RECURSIVE ResolveLoop(_, _, _, _)
\* resolve: the pass over the levels of the dependency, last but one first;
\* i is an index of the program, levels[i + 1] is join_order.1[i]
ResolveLoop(r, bdd_root_id, levels, i) ==
    IF i < 0 THEN r
    ELSE LET at == levels[i + 1]
         IN  IF i = 0
             THEN TryAdd(ResolveSwaps(r, bdd_root_id, levels[i + 2] - 1, at + 1),
                         bdd_root_id, at, at + 1)
             ELSE ResolveLoop(
                      TrySwap(TryAdd(ResolveSwaps(r, bdd_root_id, levels[i + 2] - 1, at + 1),
                                     bdd_root_id, at, at + 1),
                              bdd_root_id, at, at + 1),
                      bdd_root_id, levels, i - 1)

\* resolve: the joins
ResolveJoined(b, l, join_order) ==
    JoinAll(Ret(b, l, "ok", 0), Head(join_order.ids), Tail(join_order.ids))

\* resolve without its swaps and adds
ResolveUnreduced(joined, join_order) == joined

\* resolve: the swaps and the adds, on what the joins left
ResolveReduced(joined, join_order) ==
    ResolveLoop(joined, Head(join_order.ids), join_order.levels,
                Len(join_order.levels) - 2)

\* resolve: the absorb, on what the swaps and the adds left
ResolveAbsorb(reduced, join_order) ==
    TryAbsorb(reduced, Head(join_order.ids), join_order.levels[1] + 1, FALSE)

\* Solver::resolve
resolve(b, l, join_order) ==
    ResolveAbsorb(ResolveReduced(ResolveJoined(b, l, join_order), join_order), join_order)

RECURSIVE ScanAll(_, _, _)
\* absorb_all_equations: scan_absorb_lin_eqs on every id, each scan
\* unwrapped; r is what the scan before left, and the value left at the end
\* is whether some scan pushed an equation
ScanAll(r, ids, absorbed) ==
    IF r.result # "ok" THEN Ret(r.bdds, r.lin_bank, "panic", 0)
    ELSE IF Failed(r) THEN r
    ELSE IF ids = << >> THEN Ret(r.bdds, r.lin_bank, "ok", absorbed \/ r.value > 0)
    ELSE ScanAll(scan_absorb_lin_eqs(r.bdds, r.lin_bank, Head(ids)), Tail(ids),
                 absorbed \/ r.value > 0)

\* absorb_all_equations: pop_bdd on every Bdd that is only a sink
PopSinks(b) == Without(b, {id \in DOMAIN b : get_sink_level_index(b[id]) = 0})

RECURSIVE absorb_all_equations(_, _)
\* absorb_all_equations: the end of a pass of the while loop
AfterScan(scanned) ==
    IF Failed(scanned) THEN scanned
    ELSE IF scanned.value
         THEN absorb_all_equations(PopSinks(scanned.bdds), scanned.lin_bank)
         ELSE Ret(PopSinks(scanned.bdds), scanned.lin_bank, "ok", 0)

\* Solver::absorb_all_equations
absorb_all_equations(b, l) ==
    AfterScan(ScanAll(Ret(b, l, "ok", 0), IterOrder(DOMAIN b), FALSE))

\* solve: absorb_all_equations(system)? after the resolve that left r
TryAbsorbAll(r) ==
    IF Failed(r) THEN r ELSE absorb_all_equations(r.bdds, r.lin_bank)

RECURSIVE SolveLoop(_)
\* solve: a pass of the while loop over the dependencies extracted
SolveStep(r, deps) ==
    IF deps.panicked THEN Ret(r.bdds, r.lin_bank, "panic", 0)
    ELSE IF deps.deps = << >> THEN get_solutions(r.bdds, r.lin_bank)
    ELSE SolveLoop(TryAbsorbAll(resolve(r.bdds, r.lin_bank, pick_best_dep(deps.deps))))

\* Solver::solve, from the first extraction of the dependencies on
SolveLoop(r) ==
    IF Failed(r) THEN r ELSE SolveStep(r, extract(r.bdds))

\* Solver::solve::<NodeRankedDependency>
solve(b, l) == SolveLoop(absorb_all_equations(b, l))

RECURSIVE SplitLoop(_, _, _)
\* split: self.pop_bdd(*id)? on every id of ids; popped holds the ids of
\* the Bdds removed so far
SplitLoop(b, ids, popped) ==
    IF ids = << >> THEN [bdds |-> b, popped |-> popped, failed |-> FALSE]
    ELSE IF Head(ids) \notin DOMAIN b THEN [bdds |-> b, popped |-> popped, failed |-> TRUE]
    ELSE SplitLoop(Without(b, {Head(ids)}), Tail(ids), Append(popped, Head(ids)))

\* System::split, on what its loop left: System::from_elem refuses an empty
\* Vec; the value left is the number of the Bdds of the System returned
SplitFrom(l, loop) ==
    IF loop.failed \/ loop.popped = << >> THEN Ret(loop.bdds, l, "err", 0)
    ELSE Ret(loop.bdds, l, "ok", Len(loop.popped))

\* System::split
split(b, l, ids) == SplitFrom(l, SplitLoop(b, ids, << >>))

---------------------------------------------------------------------------
(* DroppingSolver, with the Independency of cryptapath:                     *)
(* NodeRankedIndependency.  An independency is the sequence of its          *)
(* involved_bdds; limit is the set of the variables that are not dropped.   *)

\* NodeRankedIndependency::extract: the ids and the sizes of the levels
IdLevelsSize(b, ids) ==
    Table([k \in DOMAIN ids |->
        [id         |-> ids[k],
         levels     |-> Take(NodesLen(b[ids[k]]), Len(b[ids[k]].levels) - 1),
         total_size |-> get_size(b[ids[k]])]])

\* algebra::transpose of the lhs of all the levels: for a variable, the
\* indices (from 0) of the levels that hold it
Transposed(lhs_concat, var) ==
    {i \in 0 .. (Len(lhs_concat) - 1) : var \in lhs_concat[i + 1]}

\* NodeRankedIndependency::extract: the rows kept, as involved_bdds
IndepRows(lhs_concat, id_levels_size, kept) ==
    Table([k \in DOMAIN kept |->
        RowBdds(SortAsc(Transposed(lhs_concat, kept[k])), id_levels_size, 1, 0,
                Len(id_levels_size[1].levels) - 1, << >>, << >>)])

\* NodeRankedIndependency::extract
extract_indeps(b, limit) ==
    LET ids        == IterOrder(DOMAIN b)
        lhs_concat == Concat(Table([k \in DOMAIN ids |-> get_lhs(b[ids[k]])]))
        kept       == SortAsc({var \in Vars : var \notin limit
                                             /\ Transposed(lhs_concat, var) # {}})
    IN  SelectSeq(IndepRows(lhs_concat, IdLevelsSize(b, ids), kept),
                  LAMBDA involved_bdds : Len(involved_bdds) = 1)

\* NodeRankedIndependency::minimize_distance, of an independency in one Bdd
indep_minimize_distance(involved_bdds) ==
    Sum(Skip(involved_bdds[1].levels, involved_bdds[1].involved_levels[1]))

\* NodeRankedIndependency::best_join_order, of an independency in one Bdd
indep_best_join_order(involved_bdds) ==
    [ids |-> <<involved_bdds[1].id>>, levels |-> involved_bdds[1].involved_levels]

RECURSIVE FoldMinIndep(_, _, _, _)
\* the fold of pick_best_indep; min_distance is None for usize::MAX
FoldMinIndep(indeps, i, id_indep, min_distance) ==
    IF i > Len(indeps) THEN [id |-> id_indep, min_distance |-> min_distance]
    ELSE IF min_distance = None \/ indep_minimize_distance(indeps[i]) < Unwrap(min_distance)
    THEN FoldMinIndep(indeps, i + 1, i, Some(indep_minimize_distance(indeps[i])))
    ELSE FoldMinIndep(indeps, i + 1, id_indep, min_distance)

\* DroppingSolver::pick_best_indep
pick_best_indep(indeps) == FoldMinIndep(indeps, 1, 1, None)

\* DroppingSolver::pick_best_dep: the index and the distance
pick_best_dep_index(deps) ==
    [id |-> FoldMin(deps, 1, 1, None),
     min_distance |-> minimize_distance(deps[FoldMin(deps, 1, 1, None)])]

\* system.drop(..)? after the calls that left r
TryDrop(r, bdd_id, level_index) ==
    IF Failed(r) THEN r ELSE system_drop(r.bdds, r.lin_bank, bdd_id, level_index)

RECURSIVE IndepLoop(_, _, _, _)
\* indep_resolver: add(levels[i], levels[i + 1]) and swap(levels[i + 1] - 1,
\* levels[i + 1]), for i (an index of the program) from the one given on
IndepLoop(r, bdd_root_id, levels, i) ==
    IF i >= Len(levels) - 1 THEN r
    ELSE IndepLoop(TrySwap(TryAdd(r, bdd_root_id, levels[i + 1], levels[i + 2]),
                           bdd_root_id, levels[i + 2] - 1, levels[i + 2]),
                   bdd_root_id, levels, i + 1)

\* DroppingSolver::indep_resolver
indep_resolver(b, l, join_order) ==
    TryDrop(IndepLoop(JoinAll(Ret(b, l, "ok", 0), Head(join_order.ids), Tail(join_order.ids)),
                      Head(join_order.ids), join_order.levels, 0),
            Head(join_order.ids), Last(join_order.levels))

\* DroppingSolver::solve: min_distance_indep < min_distance_dep
IndepChosen(best_dep, best_indep) ==
    /\ best_indep.min_distance # None
    /\ Unwrap(best_indep.min_distance) < best_dep.min_distance

\* DroppingSolver::solve: the resolver chosen in a pass of the while loop
DroppingChoice(b, l, deps, indeps, best_dep, best_indep) ==
    IF IndepChosen(best_dep, best_indep)
    THEN indep_resolver(b, l, indep_best_join_order(indeps[best_indep.id]))
    ELSE resolve(b, l, best_join_order(deps[best_dep.id]))

\* DroppingSolver::solve: a pass of the while loop, deps not empty
dropping_pass(b, l, deps, indeps) ==
    TryAbsorbAll(DroppingChoice(b, l, deps, indeps,
                                pick_best_dep_index(deps), pick_best_indep(indeps)))

\* Solver::solve: a pass of the while loop, deps not empty
solve_pass(b, l, deps) == TryAbsorbAll(resolve(b, l, pick_best_dep(deps)))

---------------------------------------------------------------------------
(* The solvers of cryptapath and their choice by name *)

\* find_best_bdd_pattern_dep: the ids of the Bdds of a dependency, sorted
PatternIds(involved_bdds) ==
    SortAsc({involved_bdds[i].id : i \in DOMAIN involved_bdds})

\* find_best_bdd_pattern_dep: the dependencies of the pattern of deps[k]
PatternDeps(deps, k) ==
    {i \in DOMAIN deps : PatternIds(deps[i]) = PatternIds(deps[k])}

\* find_best_bdd_pattern_dep: weigth / deps.len() of the pattern of deps[k]
PatternWeigth(deps, k) ==
    Sum(Table([i \in DOMAIN deps[k] |-> deps[k][i].total_size]))
        \div Cardinality(PatternDeps(deps, k))

RECURSIVE FoldPattern(_, _, _, _, _)
\* the fold of find_best_bdd_pattern_dep over the patterns, each named by
\* its first dependency; min_weigth is None for usize::MAX
FoldPattern(deps, patterns, i, best_p, min_weigth) ==
    IF i > Len(patterns) THEN best_p
    ELSE IF min_weigth = None \/ PatternWeigth(deps, patterns[i]) < Unwrap(min_weigth)
    THEN FoldPattern(deps, patterns, i + 1, patterns[i],
                     Some(PatternWeigth(deps, patterns[i])))
    ELSE FoldPattern(deps, patterns, i + 1, best_p, min_weigth)

\* find_best_bdd_pattern_dep, on deps not empty
find_best_bdd_pattern_dep(deps) ==
    LET patterns == SortAsc({k \in DOMAIN deps : k = SetMin(PatternDeps(deps, k))})
        best     == SortAsc(PatternDeps(deps, FoldPattern(deps, patterns, 1, 1, None)))
    IN  Table([i \in DOMAIN best |-> deps[best[i]]])

RECURSIVE ImprovedLoop(_)
\* UpwardSolver::improved_solve: a pass of the while loop
ImprovedStep(r, deps) ==
    IF deps.panicked THEN Ret(r.bdds, r.lin_bank, "panic", 0)
    ELSE IF deps.deps = << >> THEN get_solutions(r.bdds, r.lin_bank)
    ELSE ImprovedLoop(solve_pass(r.bdds, r.lin_bank, find_best_bdd_pattern_dep(deps.deps)))

ImprovedLoop(r) ==
    IF Failed(r) THEN r ELSE ImprovedStep(r, extract(r.bdds))

\* UpwardSolver::improved_solve
improved_solve(b, l) == ImprovedLoop(absorb_all_equations(b, l))

RECURSIVE ImprovedDroppingLoop(_, _)
\* UpwardDroppingSolver::improved_solve: a pass of the while loop
ImprovedDroppingStep(r, limit, deps) ==
    IF deps.panicked THEN Ret(r.bdds, r.lin_bank, "panic", 0)
    ELSE IF deps.deps = << >> THEN get_solutions(r.bdds, r.lin_bank)
    ELSE ImprovedDroppingLoop(
             dropping_pass(r.bdds, r.lin_bank, find_best_bdd_pattern_dep(deps.deps),
                           extract_indeps(r.bdds, limit)),
             limit)

ImprovedDroppingLoop(r, limit) ==
    IF Failed(r) THEN r ELSE ImprovedDroppingStep(r, limit, extract(r.bdds))

\* UpwardDroppingSolver::improved_solve
improved_dropping_solve(b, l, limit) ==
    ImprovedDroppingLoop(absorb_all_equations(b, l), limit)

\* the unwrap of the Result of improved_solve
Unwrapped(r) ==
    IF r.result = "err" THEN Ret(r.bdds, r.lin_bank, "panic", 0) ELSE r

\* execute_strategy_by_name: None when no arm of the match has the name
execute_strategy_by_name(name, b, l, limit) ==
    IF name = "no_drop" THEN Some(Unwrapped(improved_solve(b, l)))
    ELSE IF name = "drop" THEN Some(Unwrapped(improved_dropping_solve(b, l, limit)))
    ELSE None

\* main: the name handed to execute_strategy_by_name by a command; strategy
\* is the option --strategy of the command cipher
NamePassed(command, strategy) ==
    IF command = "cipher"
    THEN IF strategy = None THEN "no_drop" ELSE Unwrap(strategy)
    ELSE IF command = "sponge" THEN "UpwardDroppingSolver"
    ELSE "UpwardSolver"

\* main: what a command does with what execute_strategy_by_name returns;
\* only the cipher command given a strategy matches on it, the others unwrap
main(command, strategy, b, l, executed) ==
    IF executed # None THEN Unwrap(executed)
    ELSE IF command = "cipher" /\ strategy # None THEN Ret(b, l, "err", 0)
    ELSE Ret(b, l, "panic", 0)

---------------------------------------------------------------------------
(* Construction of a System from a specification *)

NodeSpec(id, e0, e1) == [id |-> id, e0 |-> e0, e1 |-> e1]
LevelSpec(lhs, rhs) == [lhs |-> lhs, rhs |-> rhs]
BddSpec(id, levels) == [id |-> id, levels |-> levels]

\* LevelSpec::remove_minus_one
remove_minus_one(level_spec) ==
    LET n == Cardinality({i \in DOMAIN level_spec.lhs : level_spec.lhs[i] = -1})
    IN  LevelSpec(SelectSeq(level_spec.lhs, LAMBDA v : v # -1),
                  IF n % 2 # 0
                  THEN Table([i \in DOMAIN level_spec.rhs |->
                           NodeSpec(level_spec.rhs[i].id, level_spec.rhs[i].e1,
                                    level_spec.rhs[i].e0)])
                  ELSE level_spec.rhs)

RECURSIVE set_lhs(_, _)
\* Level::set_lhs: every variable listed toggles its bit
set_lhs(lhs, var_list) ==
    IF var_list = << >> THEN lhs
    ELSE set_lhs(Xor(lhs, {Head(var_list)}), Tail(var_list))

RECURSIVE AllNodeSpecs(_)
\* the NodeSpecs of all the levels, in the order of the specification
AllNodeSpecs(levels) ==
    IF levels = << >> THEN << >> ELSE Head(levels).rhs \o AllNodeSpecs(Tail(levels))

\* Bdd::connect_nodes_from_spec
connect_nodes_from_spec(bdd, parent, child_id, edge) ==
    LET child  == GlobalId(child_id, bdd.id)
        parent_id == GlobalId(parent, bdd.id)
    IN  [bdd EXCEPT !.levels =
            Table([k \in 1 .. Len(bdd.levels) |->
                IF parent_id \in DOMAIN bdd.levels[k].nodes
                THEN IF edge = 0
                     THEN [bdd.levels[k] EXCEPT !.nodes[parent_id].e0 = Some(child)]
                     ELSE [bdd.levels[k] EXCEPT !.nodes[parent_id].e1 = Some(child)]
                ELSE bdd.levels[k]])]

RECURSIVE ConnectLoop(_, _)
ConnectLoop(bdd, node_specs) ==
    IF node_specs = << >> THEN bdd
    ELSE LET node_spec == Head(node_specs)
             c0 == IF node_spec.e0 # 0
                   THEN connect_nodes_from_spec(bdd, node_spec.id, node_spec.e0, 0)
                   ELSE bdd
             c1 == IF node_spec.e1 # 0
                   THEN connect_nodes_from_spec(c0, node_spec.id, node_spec.e1, 1)
                   ELSE c0
         IN  ConnectLoop(c1, Tail(node_specs))

RECURSIVE SameEdgesLoop(_, _, _)
\* add_same_edges_node_at_level, the loop over childs: acc holds the bdd
\* and the map new_level
SameEdgesLoop(acc, order, level_index) ==
    IF order = << >> THEN acc
    ELSE LET node   == Head(order)
             new_id == GlobalId(acc.bdd.next_id + 1, acc.bdd.id)
         IN  SameEdgesLoop(
                 [bdd |-> [acc.bdd EXCEPT
                              !.next_id = acc.bdd.next_id + 1,
                              !.levels[level_index + 1].nodes =
                                  Insert(@, new_id, Node(Some(node), Some(node)))],
                  new_level |-> Insert(acc.new_level, node, new_id)],
                 Tail(order), level_index)

\* Bdd::add_same_edges_node_at_level
add_same_edges_node_at_level(bdd, level_index) ==
    IF level_index = 0 THEN bdd
    ELSE LET childs == EdgeSet(Lv(bdd, level_index - 1).nodes)
                           \ DOMAIN Lv(bdd, level_index).nodes
             acc    == SameEdgesLoop([bdd |-> bdd, new_level |-> EmptyMap],
                                     IterOrder(childs), level_index)
         IN  IF childs = {} THEN bdd
             ELSE point_all_parents_to_new_level_map(acc.bdd, acc.new_level, 0, level_index)

RECURSIVE SameEdgesFrom(_, _, _)
SameEdgesFrom(bdd, i, end) ==
    IF i >= end THEN bdd
    ELSE SameEdgesFrom(add_same_edges_node_at_level(bdd, i), i + 1, end)

\* utils::build_bdd_from_spec
build_bdd_from_spec(spec) ==
    LET stripped == Table([i \in DOMAIN spec.levels |-> remove_minus_one(spec.levels[i])])
        ids      == {AllNodeSpecs(spec.levels)[i].id : i \in DOMAIN AllNodeSpecs(spec.levels)}
        next_id  == SetMax(ids \cup {0})
        levels   == Table([i \in DOMAIN stripped |->
                        Level(set_lhs({}, stripped[i].lhs),
                              Table([n \in {GlobalId(stripped[i].rhs[j].id, spec.id) :
                                         j \in DOMAIN stripped[i].rhs} |-> Node(None, None)]))])
        connected == ConnectLoop(Bdd(levels, spec.id, next_id + 1), AllNodeSpecs(stripped))
    IN  IF Len(spec.levels) > 2
        THEN SameEdgesFrom(connected, 1, Len(spec.levels) - 2)
        ELSE connected

\* utils::build_system_from_spec: the map System.bdds
build_system_from_spec(bdd_specs) ==
    LET ids    == {bdd_specs[i].id : i \in DOMAIN bdd_specs}
        id(i)  == IF Cardinality(ids) # Len(bdd_specs) THEN i - 1 ELSE bdd_specs[i].id
    IN  Table([k \in {id(i) : i \in DOMAIN bdd_specs} |->
            LET i == CHOOSE j \in DOMAIN bdd_specs : id(j) = k
            IN  build_bdd_from_spec(BddSpec(k, bdd_specs[i].levels))])

---------------------------------------------------------------------------
(* The Systems the behaviours start from, as specifications *)

\* the Bdd of the tests of the crate, over the variables 0 .. 2
SpecTest(id) ==
    BddSpec(id, << LevelSpec(<<0, 1>>, <<NodeSpec(1, 2, 3)>>),
                   LevelSpec(<<2, 1>>, <<NodeSpec(2, 4, 5), NodeSpec(3, 4, 0)>>),
                   LevelSpec(<<0>>,    <<NodeSpec(4, 0, 6), NodeSpec(5, 6, 0)>>),
                   LevelSpec(<< >>,    <<NodeSpec(6, 0, 0)>>) >>)

\* x1 = x2
SpecEqual(id) ==
    BddSpec(id, << LevelSpec(<<1>>, <<NodeSpec(1, 2, 3)>>),
                   LevelSpec(<<2>>, <<NodeSpec(2, 4, 0), NodeSpec(3, 0, 4)>>),
                   LevelSpec(<< >>, <<NodeSpec(4, 0, 0)>>) >>)

\* x1 = 1 and then x1 = 0: a Bdd without solution
SpecContradiction(id) ==
    BddSpec(id, << LevelSpec(<<1>>, <<NodeSpec(1, 0, 2)>>),
                   LevelSpec(<<1>>, <<NodeSpec(2, 3, 0)>>),
                   LevelSpec(<< >>, <<NodeSpec(3, 0, 0)>>) >>)

\* x1 = b and then x1 = 1 - b, for both b: a Bdd without solution whose
\* levels have nodes with both edges
SpecUnequal(id) ==
    BddSpec(id, << LevelSpec(<<1>>, <<NodeSpec(1, 2, 3)>>),
                   LevelSpec(<<1>>, <<NodeSpec(2, 0, 4), NodeSpec(3, 4, 0)>>),
                   LevelSpec(<< >>, <<NodeSpec(4, 0, 0)>>) >>)

\* a Bdd whose levels 1 and 2 hold two nodes with the same edges
SpecTwins(id) ==
    BddSpec(id, << LevelSpec(<<0>>, <<NodeSpec(1, 2, 3)>>),
                   LevelSpec(<<1>>, <<NodeSpec(2, 4, 5), NodeSpec(3, 4, 5)>>),
                   LevelSpec(<<2>>, <<NodeSpec(4, 6, 6), NodeSpec(5, 6, 6)>>),
                   LevelSpec(<< >>, <<NodeSpec(6, 0, 0)>>) >>)

\* a Bdd with a node (3) that no node points to
SpecOrphan(id) ==
    BddSpec(id, << LevelSpec(<<0>>, <<NodeSpec(1, 2, 2)>>),
                   LevelSpec(<<1>>, <<NodeSpec(2, 0, 4), NodeSpec(3, 4, 0)>>),
                   LevelSpec(<<2>>, <<NodeSpec(4, 5, 5)>>),
                   LevelSpec(<< >>, <<NodeSpec(5, 0, 0)>>) >>)

\* x0 = 1, written with a -1 in the lhs
SpecOne(id) ==
    BddSpec(id, << LevelSpec(<<0, -1>>, <<NodeSpec(1, 2, 0)>>),
                   LevelSpec(<< >>,     <<NodeSpec(2, 0, 0)>>) >>)

\* a Bdd of five levels whose nodes all have both edges: 32 paths
SpecWide(id) ==
    BddSpec(id, << LevelSpec(<<0>>,    <<NodeSpec(1, 2, 2)>>),
                   LevelSpec(<<1>>,    <<NodeSpec(2, 3, 3)>>),
                   LevelSpec(<<2>>,    <<NodeSpec(3, 4, 4)>>),
                   LevelSpec(<<0, 1>>, <<NodeSpec(4, 5, 5)>>),
                   LevelSpec(<<1, 2>>, <<NodeSpec(5, 6, 6)>>),
                   LevelSpec(<< >>,    <<NodeSpec(6, 0, 0)>>) >>)

\* a Bdd whose source has an edge that skips level 1
SpecJump(id) ==
    BddSpec(id, << LevelSpec(<<0>>, <<NodeSpec(1, 2, 3)>>),
                   LevelSpec(<<1>>, <<NodeSpec(2, 3, 3)>>),
                   LevelSpec(<<2>>, <<NodeSpec(3, 4, 4)>>),
                   LevelSpec(<< >>, <<NodeSpec(4, 0, 0)>>) >>)

\* a Bdd with an edge from level 1 to the sink, which skips level 2
SpecJumpSink(id) ==
    BddSpec(id, << LevelSpec(<<0>>, <<NodeSpec(1, 2, 0)>>),
                   LevelSpec(<<1>>, <<NodeSpec(2, 3, 4)>>),
                   LevelSpec(<<2>>, <<NodeSpec(3, 4, 4)>>),
                   LevelSpec(<< >>, <<NodeSpec(4, 0, 0)>>) >>)

\* x_a + x_b free: one level, whose node has both edges
SpecXor(id, a, b) ==
    BddSpec(id, << LevelSpec(<<a, b>>, <<NodeSpec(1, 2, 2)>>),
                   LevelSpec(<< >>,    <<NodeSpec(2, 0, 0)>>) >>)

\* the Systems with linear dependencies between their levels
DependentSystemSpecs ==
    { <<SpecTest(0), SpecEqual(1)>>,
      <<SpecWide(0)>>,
      <<SpecXor(0, 0, 1), SpecXor(1, 1, 2), SpecXor(2, 0, 2)>>,
      <<SpecEqual(0), SpecXor(1, 0, 1), SpecXor(2, 0, 2), SpecOrphan(3)>>,
      <<SpecUnequal(0)>>,
      <<SpecXor(0, 0, 2), SpecUnequal(1)>> }

\* the Systems built from specifications with edges that skip levels
JumpSystemSpecs ==
    { <<SpecJump(0)>>,
      <<SpecJumpSink(0)>>,
      <<SpecJump(0), SpecTest(1)>> }

\* the Systems whose paths are enumerated
PathSystemSpecs ==
    { <<SpecWide(0)>>,
      <<SpecTest(0), SpecEqual(1)>>,
      <<SpecOrphan(0)>> }

SystemSpecs ==
    { <<SpecTest(0)>>,
      <<SpecTest(0), SpecEqual(1)>>,
      <<SpecContradiction(0)>>,
      <<SpecOrphan(0)>>,
      <<SpecEqual(0), SpecOne(1)>> }

---------------------------------------------------------------------------
(* What a Bdd and a System stand for *)

\* an assignment is the set of the variables that are 1; the value of a form
Eval(lhs, assignment) == Cardinality(lhs \cap assignment) % 2 = 1

RECURSIVE PathsFrom(_, _, _)
\* the sequences of edge bits that lead from node id of level i to the last level
PathsFrom(bdd, i, id) ==
    IF id \notin DOMAIN Lv(bdd, i).nodes THEN {}
    ELSE IF i = get_sink_level_index(bdd) THEN {<< >>}
    ELSE LET node == Lv(bdd, i).nodes[id]
         IN  {<<FALSE>> \o p : p \in UNION {PathsFrom(bdd, i + 1, c) : c \in node.e0}}
             \cup {<<TRUE>> \o p : p \in UNION {PathsFrom(bdd, i + 1, c) : c \in node.e1}}

\* the accepting paths of a Bdd
AcceptingPaths(bdd) == UNION {PathsFrom(bdd, 0, id) : id \in DOMAIN Lv(bdd, 0).nodes}

\* the assignments that follow some accepting path of the Bdd
BddSolutions(bdd) ==
    {a \in SUBSET Vars :
        \E p \in AcceptingPaths(bdd) :
            \A i \in DOMAIN p : Eval(bdd.levels[i].lhs, a) = p[i]}

\* the residual solution set of a System
Residual(b, l) ==
    {a \in SUBSET Vars :
        /\ \A i \in DOMAIN l : Eval(l[i].lhs, a) = l[i].rhs
        /\ \A id \in DOMAIN b : a \in BddSolutions(b[id])}

\* the forms of the levels above the sink
Forms(bdd) == Table([i \in 1 .. (Len(bdd.levels) - 1) |-> bdd.levels[i].lhs])

WellFormed(bdd) ==
    /\ Len(bdd.levels) >= 1
    /\ Cardinality(DOMAIN Lv(bdd, 0).nodes) = 1
    /\ LET sink == Lv(bdd, get_sink_level_index(bdd)).nodes
       IN  /\ Cardinality(DOMAIN sink) = 1
           /\ \A n \in DOMAIN sink : sink[n] = Node(None, None)
    /\ \A i \in 0 .. (get_sink_level_index(bdd) - 1) :
          \A n \in DOMAIN Lv(bdd, i).nodes :
             LET node == Lv(bdd, i).nodes[n]
             IN  /\ IsSome(node.e0) \/ IsSome(node.e1)
                 /\ (node.e0 \cup node.e1) \subseteq DOMAIN Lv(bdd, i + 1).nodes

\* no node below the source is without a parent
NoOrphans(bdd) ==
    \A i \in 1 .. get_sink_level_index(bdd) :
        DOMAIN Lv(bdd, i).nodes \subseteq EdgeSet(Lv(bdd, i - 1).nodes)

---------------------------------------------------------------------------
(* The behaviours: public calls on the System, one after the other *)

Call(op, bdd_id, a1, a2, edge) ==
    [op |-> op, bdd_id |-> bdd_id, a1 |-> a1, a2 |-> a2, edge |-> edge]

\* a call of absorb names an edge value that some node of the level has
HasEdge(call) ==
    (call.op = "absorb" /\ call.bdd_id \in DOMAIN bdds
        /\ call.a1 <= get_sink_level_index(bdds[call.bdd_id]))
    => \E n \in DOMAIN Lv(bdds[call.bdd_id], call.a1).nodes :
          IsSome(IF call.edge THEN Lv(bdds[call.bdd_id], call.a1).nodes[n].e1
                              ELSE Lv(bdds[call.bdd_id], call.a1).nodes[n].e0)

\* the System and the bookkeeping of the calls after a call that yields r
Record(call, r) ==
    /\ bdds' = r.bdds
    /\ lin_bank' = r.lin_bank
    /\ status' = IF SomePanicked(r.bdds) \/ r.result = "panic" THEN "panic" ELSE "ok"
    /\ last' = [call |-> call,
                result |-> IF SomePanicked(r.bdds) THEN "panic" ELSE r.result,
                value |-> IF call.op = "solve" THEN 0 ELSE r.value]
    /\ returned' = IF call.op = "solve" /\ ~Failed(r) THEN r.value ELSE << >>
    /\ pre' = [bdds |-> bdds, lin_bank |-> lin_bank]
    /\ before' = [call |-> last.call, result |-> last.result,
                  bdds |-> pre.bdds, lin_bank |-> pre.lin_bank]
    /\ covered' = (covered /\ HasEdge(call))
    /\ steps' = steps + 1
    /\ hseed' \in 0 .. (HashSeeds - 1)

\* the state after a call that yields r
Done(call, r) ==
    /\ Record(call, r)
    /\ UNCHANGED <<orig, matrix, vector, answer, resolving>>

Running == status = "ok" /\ steps < MaxSteps

\* the bdd ids a caller passes: those of the System as built, and one more
IdInputs == DOMAIN orig.bdds \cup {Cardinality(DOMAIN orig.bdds)}

\* the level indices a caller passes for a Bdd: those of its levels, and one more
LevelInputs(bdd_id) ==
    IF bdd_id \in DOMAIN bdds THEN 0 .. (get_sink_level_index(bdds[bdd_id]) + 1) ELSE {0}

\* resolve not called yet
NoResolve == [ids |-> << >>, levels |-> << >>, origin |-> << >>, joined |-> << >>,
              reduced |-> << >>, failed |-> FALSE]

\* no function of algebra called yet
NoAnswer == [op |-> "none", solutions |-> << >>, rows |-> << >>, panicked |-> FALSE]

\* a System built from one of the specifications system_specs
InitFrom(system_specs) ==
    /\ hseed \in 0 .. (HashSeeds - 1)
    /\ \E system_spec \in system_specs : bdds = build_system_from_spec(system_spec)
    /\ matrix = << >> /\ vector = << >> /\ answer = NoAnswer
    /\ resolving = NoResolve
    /\ lin_bank = << >>
    /\ status = "ok"
    /\ last = [call |-> Call("new", 0, 0, 0, FALSE), result |-> "ok", value |-> 0]
    /\ pre = [bdds |-> bdds, lin_bank |-> lin_bank]
    /\ before = [call |-> Call("new", 0, 0, 0, FALSE), result |-> "ok",
                 bdds |-> bdds, lin_bank |-> lin_bank]
    /\ orig = [bdds |-> bdds, lin_bank |-> lin_bank]
    /\ given = {}
    /\ covered = TRUE
    /\ steps = 0
    /\ returned = << >>

Init == InitFrom(SystemSpecs)

Swap ==
    /\ Running
    /\ \E bdd_id \in IdInputs : \E above \in LevelInputs(bdd_id) :
       \E below \in LevelInputs(bdd_id) :
          Done(Call("swap", bdd_id, above, below, FALSE),
               system_swap(bdds, lin_bank, bdd_id, above, below))
    /\ UNCHANGED given

Add ==
    /\ Running
    /\ \E bdd_id \in IdInputs : \E above \in LevelInputs(bdd_id) :
       \E below \in LevelInputs(bdd_id) :
          Done(Call("add", bdd_id, above, below, FALSE),
               system_add(bdds, lin_bank, bdd_id, above, below))
    /\ UNCHANGED given

Absorb ==
    /\ Running
    /\ \E bdd_id \in IdInputs : \E level_index \in LevelInputs(bdd_id) :
       \E edge \in BOOLEAN :
          Done(Call("absorb", bdd_id, level_index, 0, edge),
               system_absorb(bdds, lin_bank, bdd_id, level_index, edge))
    /\ UNCHANGED given

Drop ==
    /\ Running
    /\ \E bdd_id \in IdInputs : \E level_index \in LevelInputs(bdd_id) :
          Done(Call("drop", bdd_id, level_index, 0, FALSE),
               system_drop(bdds, lin_bank, bdd_id, level_index))
    /\ UNCHANGED given

Join ==
    /\ Running
    /\ \E bdd_1_id \in IdInputs : \E bdd_2_id \in IdInputs :
          Done(Call("join_bdds", bdd_1_id, bdd_2_id, 0, FALSE),
               join_bdds(bdds, lin_bank, bdd_1_id, bdd_2_id))
    /\ UNCHANGED given

\* the left sides a caller passes to fix: at most two variables
FixInputs == {lhs \in SUBSET Vars : Cardinality(lhs) <= 2}

Fix ==
    /\ Running
    /\ \E lhs \in FixInputs : \E rhs \in BOOLEAN :
          /\ Done(Call("fix", 0, lhs, 0, rhs), fix(bdds, lin_bank, lhs, rhs))
          /\ given' = given \cup {LinEq(lhs, rhs)}

Scan ==
    /\ Running
    /\ \E bdd_id \in IdInputs :
          Done(Call("scan_absorb_lin_eqs", bdd_id, 0, 0, FALSE),
               scan_absorb_lin_eqs(bdds, lin_bank, bdd_id))
    /\ UNCHANGED given

Next == Swap \/ Add \/ Absorb \/ Drop \/ Join \/ Fix \/ Scan

Spec == Init /\ [][Next]_vars

\* Solver::solve called on the System; the value left is the Vec of the
\* solutions returned
Solve ==
    /\ Running
    /\ Done(Call("solve", 0, 0, 0, FALSE), solve(bdds, lin_bank))
    /\ UNCHANGED given

NextSolve == Fix \/ Solve

\* the behaviours of a caller that fixes equations and solves
SpecSolve == Init /\ [][NextSolve]_vars

\* Solver::absorb_all_equations run on the System, as solve runs it
AbsorbAllEquations ==
    /\ Running
    /\ Done(Call("absorb_all_equations", 0, 0, 0, FALSE),
            [absorb_all_equations(bdds, lin_bank) EXCEPT !.value = 0])
    /\ UNCHANGED given

NextAbsorb == Fix \/ Add \/ AbsorbAllEquations

\* the behaviours of a solver that absorbs the equations of a System on
\* which equations were fixed and levels added
SpecAbsorb == Init /\ [][NextAbsorb]_vars

\* what a query on a Bdd leaves and returns
Queried(answered) ==
    Ret(bdds, lin_bank, IF answered.panicked THEN "panic" ELSE "ok", answered.value)

\* Bdd::count_paths called on a Bdd of the System
CountPaths ==
    /\ Running
    /\ \E bdd_id \in DOMAIN bdds :
          Done(Call("count_paths", bdd_id, 0, 0, FALSE), Queried(count_paths(bdds[bdd_id])))
    /\ UNCHANGED given

NextQuery == Swap \/ Add \/ Absorb \/ Join \/ CountPaths

\* the behaviours of a caller that changes the Bdds and counts their paths
SpecQuery == Init /\ [][NextQuery]_vars

\* Bdd::get_all_valid_path called on a Bdd of the System; the value left
\* is the number of paths returned
GetAllValidPath ==
    /\ Running
    /\ \E bdd_id \in DOMAIN bdds :
          Done(Call("get_all_valid_path", bdd_id, 0, 0, FALSE),
               Queried([value |-> Len(get_all_valid_path(bdds[bdd_id]).paths),
                        panicked |-> get_all_valid_path(bdds[bdd_id]).panicked]))
    /\ UNCHANGED given

\* System::get_solutions called on the System; the value left is the
\* number of solutions returned
GetSolutions ==
    /\ Running
    /\ Done(Call("get_solutions", 0, 0, 0, FALSE),
            [get_solutions(bdds, lin_bank) EXCEPT !.value = Len(@)])
    /\ UNCHANGED given

NextPaths == Swap \/ Fix \/ GetAllValidPath \/ GetSolutions

\* the behaviours of a caller that enumerates the paths and the solutions
SpecPaths == InitFrom(PathSystemSpecs) /\ [][NextPaths]_vars

NextBuild == Swap \/ CountPaths \/ GetAllValidPath

\* the behaviours of a caller that builds a System from a specification
\* with edges that skip levels, and looks at it
SpecBuild == InitFrom(JumpSystemSpecs) /\ [][NextBuild]_vars

\* the forms of the involved levels of the dependency, in the order in
\* which join_order joins their Bdds
OriginForms(involved_bdds, ids) ==
    Concat(Table([k \in DOMAIN ids |->
        LET bdd == involved_bdds[CHOOSE i \in DOMAIN involved_bdds :
                                     involved_bdds[i].id = ids[k]]
        IN  Table([j \in DOMAIN bdd.involved_levels |->
                Lv(bdds[bdd.id], bdd.involved_levels[j]).lhs])]))

\* the forms of the Bdd bdd_id of what a step of resolve left
FormsLeft(r, bdd_id) ==
    IF ~Failed(r) /\ bdd_id \in DOMAIN r.bdds THEN get_lhs(r.bdds[bdd_id]) ELSE << >>

\* resolve, step after step, on the dependency with the join order given
ResolveSteps(k, origin, join_order, joined, reduced) ==
    /\ Record(Call("resolve", 0, k, 0, FALSE),
              [ResolveAbsorb(reduced, join_order) EXCEPT !.value = 0])
    /\ resolving' = [ids |-> join_order.ids, levels |-> join_order.levels,
                     origin |-> origin,
                     joined |-> FormsLeft(joined, Head(join_order.ids)),
                     reduced |-> FormsLeft(reduced, Head(join_order.ids)),
                     failed |-> Failed(reduced)]

ResolveJoinOrder(k, origin, join_order, joined) ==
    ResolveSteps(k, origin, join_order, joined, ResolveReduced(joined, join_order))

ResolveDependency(k, involved_bdds, join_order) ==
    ResolveJoinOrder(k, OriginForms(involved_bdds, join_order.ids), join_order,
                     ResolveJoined(bdds, lin_bank, join_order))

\* Solver::resolve called with the best_join_order of a dependency that
\* extract returns, on a System that absorb_all_equations has just left
Resolve ==
    /\ Running
    /\ last.call.op = "absorb_all_equations" /\ last.result = "ok"
    /\ ~extract(bdds).panicked
    /\ \E k \in DOMAIN extract(bdds).deps :
          ResolveDependency(k, extract(bdds).deps[k], best_join_order(extract(bdds).deps[k]))
    /\ UNCHANGED <<orig, matrix, vector, answer, given>>

NextResolve == AbsorbAllEquations \/ Resolve \/ CountPaths

\* the behaviours of a solver that absorbs the equations and resolves a
\* dependency
SpecResolve == InitFrom(DependentSystemSpecs) /\ [][NextResolve]_vars

\* the calls after which solve is at the head of its while loop
AtLoopHead ==
    /\ status = "ok" /\ steps < MaxPasses
    /\ last.call.op \in {"absorb_all_equations", "solve_pass", "dropping_pass"}
    /\ last.result = "ok"
    /\ ~extract(bdds).panicked
    /\ extract(bdds).deps # << >>

\* a pass of the while loop of Solver::solve
SolvePass ==
    /\ AtLoopHead
    /\ Done(Call("solve_pass", 0, 0, 0, FALSE),
            [solve_pass(bdds, lin_bank, extract(bdds).deps) EXCEPT !.value = 0])
    /\ UNCHANGED given

\* the slices a caller passes as forbid_dropping
ForbidInputs == {{}, {0}}

\* a pass of the while loop of DroppingSolver::solve
DroppingPass ==
    /\ AtLoopHead
    /\ \E limit \in ForbidInputs :
          Done(Call("dropping_pass", 0, Cardinality(limit),
                    IF IndepChosen(pick_best_dep_index(extract(bdds).deps),
                                   pick_best_indep(extract_indeps(bdds, limit)))
                    THEN 1 ELSE 0, FALSE),
               [dropping_pass(bdds, lin_bank, extract(bdds).deps,
                              extract_indeps(bdds, limit)) EXCEPT !.value = 0])
    /\ UNCHANGED given

NextLoop == Swap \/ Add \/ Join \/ AbsorbAllEquations \/ SolvePass \/ DroppingPass

\* the behaviours of the while loops of Solver::solve and
\* DroppingSolver::solve, pass after pass
SpecLoop == InitFrom(DependentSystemSpecs) /\ [][NextLoop]_vars

\* minimize_distance of a dependency: the call names the first of its
\* involved_bdds (its id, its involved_levels, the sizes of its levels) and
\* whether it is the only one
DistanceOf(involved_bdds) ==
    Done(Call("minimize_distance", involved_bdds[1].id, involved_bdds[1].involved_levels,
              involved_bdds[1].levels, Len(involved_bdds) = 1),
         Ret(bdds, lin_bank, "ok", minimize_distance(involved_bdds)))

\* NodeRankedDependency::minimize_distance called on a dependency that
\* extract returns
MinimizeDistance ==
    /\ Running
    /\ ~extract(bdds).panicked
    /\ \E k \in DOMAIN extract(bdds).deps : DistanceOf(extract(bdds).deps[k])
    /\ UNCHANGED given

NextDistance == Swap \/ Add \/ Join \/ MinimizeDistance

\* the behaviours of a caller that ranks the dependencies of a System
SpecDistance == InitFrom(DependentSystemSpecs) /\ [][NextDistance]_vars

\* the Systems with Bdds that have nodes to merge
MergeSystemSpecs ==
    { <<SpecTwins(0)>>, <<SpecTest(0)>>, <<SpecWide(0)>>, <<SpecOrphan(0), SpecTwins(1)>> }

\* Bdd::merge_equals_node_start called on a Bdd of the System; the value
\* left is 1 when the loop ended with changed still true
MergeEqualsNodeStart ==
    /\ Running
    /\ \E bdd_id \in DOMAIN bdds : \E level_index \in LevelInputs(bdd_id) :
          Done(Call("merge_equals_node_start", bdd_id, level_index, 0, FALSE),
               Ret([bdds EXCEPT ![bdd_id] = merge_equals_node_start(bdds[bdd_id], level_index)],
                   lin_bank, "ok",
                   IF level_index <= get_sink_level_index(bdds[bdd_id])
                      /\ MergeRanOut(bdds[bdd_id], level_index)
                   THEN 1 ELSE 0))
    /\ UNCHANGED given

NextMerge == Swap \/ Add \/ MergeEqualsNodeStart

\* the behaviours of a caller that swaps, adds and merges the equal nodes
SpecMerge == InitFrom(MergeSystemSpecs) /\ [][NextMerge]_vars

\* the slices of ids a caller passes to split: at most MaxIds ids
SplitInputs ==
    UNION {[1 .. n -> IdInputs] : n \in 0 .. MaxIds}

\* System::split called on the System
Split ==
    /\ Running
    /\ \E ids \in SplitInputs :
          Done(Call("split", 0, ids, 0, FALSE), split(bdds, lin_bank, ids))
    /\ UNCHANGED given

NextSplit == Swap \/ Join \/ Split

\* the behaviours of a caller that swaps, joins and splits
SpecSplit == Init /\ [][NextSplit]_vars

\* the commands of cryptapath that solve a System
Commands == {"cipher", "sponge", "from_file"}

\* the values of the option --strategy
StrategyInputs == {None, Some("no_drop"), Some("drop"), Some("upward")}

\* main: forbid_dropping, which only the cipher command given a strategy
\* and the sponge command pass
ForbidPassed(command, strategy, forbid_dropping) ==
    IF command = "sponge" \/ (command = "cipher" /\ strategy # None)
    THEN forbid_dropping ELSE {}

\* main, from the call of execute_strategy_by_name on: executed is what
\* that call returned
MainFrom(command, strategy, executed) ==
    Done(Call("main", 0, command, strategy, executed # None),
         [main(command, strategy, bdds, lin_bank, executed) EXCEPT !.value = 0])

\* a command of cryptapath run on the System built
Main ==
    /\ Running
    /\ \E command \in Commands : \E strategy \in StrategyInputs :
       \E forbid_dropping \in ForbidInputs :
          /\ command # "cipher" => strategy = None
          /\ ForbidPassed(command, strategy, forbid_dropping) = forbid_dropping
          /\ MainFrom(command, strategy,
                      execute_strategy_by_name(
                          NamePassed(command, strategy), bdds, lin_bank,
                          ForbidPassed(command, strategy, forbid_dropping)))
    /\ UNCHANGED given

NextMain == Fix \/ Main

\* the behaviours of cryptapath: values fixed, then the System solved
SpecMain == InitFrom(SystemSpecs \cup DependentSystemSpecs) /\ [][NextMain]_vars

---------------------------------------------------------------------------
(* The functions of algebra, called on the matrices of at most MaxRows     *)
(* rows over NVar columns                                                  *)

\* the matrices with n rows, numbered from 0
Matrices(n) == {Table(m) : m \in [0 .. (n - 1) -> SUBSET Vars]}

\* the right hand sides with n bits
Vectors(n) == {Table(v) : v \in [0 .. (n - 1) -> BOOLEAN]}

\* Matrix::column_size
MatrixColumns(rows) == IF DOMAIN rows = {} THEN 0 ELSE NVar

InitAlgebra ==
    /\ \E n \in 0 .. MaxRows : matrix \in Matrices(n) /\ vector \in Vectors(n)
    /\ answer = NoAnswer
    /\ resolving = NoResolve
    /\ hseed = 0
    /\ bdds = EmptyMap
    /\ lin_bank = << >>
    /\ status = "ok"
    /\ last = [call |-> Call("new", 0, 0, 0, FALSE), result |-> "ok", value |-> 0]
    /\ pre = [bdds |-> bdds, lin_bank |-> lin_bank]
    /\ before = [call |-> Call("new", 0, 0, 0, FALSE), result |-> "ok",
                 bdds |-> bdds, lin_bank |-> lin_bank]
    /\ orig = [bdds |-> bdds, lin_bank |-> lin_bank]
    /\ given = {}
    /\ covered = TRUE
    /\ steps = 0
    /\ returned = << >>

SystemVars == <<bdds, lin_bank, status, last, pre, before, orig, given, covered, steps,
                returned, hseed, resolving>>

\* algebra::solve_linear_system called on the matrix and the vector
SolveLinearSystem ==
    /\ answer.op = "none"
    /\ answer' = [op |-> "solve_linear_system",
                  solutions |-> solve_linear_system(matrix, vector, MatrixColumns(matrix)).solutions,
                  rows |-> << >>,
                  panicked |-> solve_linear_system(matrix, vector, MatrixColumns(matrix)).panicked]
    /\ UNCHANGED <<matrix, vector, SystemVars>>

\* algebra::extract_linear_dependencies called on the matrix
ExtractLinearDependencies ==
    /\ answer.op = "none"
    /\ answer' = [op |-> "extract_linear_dependencies",
                  solutions |-> << >>,
                  rows |-> extract_linear_dependencies(matrix).rows,
                  panicked |-> extract_linear_dependencies(matrix).panicked]
    /\ UNCHANGED <<matrix, vector, SystemVars>>

NextAlgebra == SolveLinearSystem \/ ExtractLinearDependencies

SpecAlgebra == InitAlgebra /\ [][NextAlgebra]_vars

---------------------------------------------------------------------------
(* Properties *)

\* the Bdd a call was made on, before and after the call
PreBdd == pre.bdds[last.call.bdd_id]
PostBdd == bdds[last.call.bdd_id]

\* the last call was op, on a Bdd of the System, and passed the checks of
\* System on its operands
Called(op) ==
    /\ last.call.op = op
    /\ last.result # "err"
    /\ last.call.bdd_id \in DOMAIN pre.bdds

\* some node of level level_index of bdd has the edge of value edge
LevelHasEdge(bdd, level_index, edge) ==
    \E n \in DOMAIN Lv(bdd, level_index).nodes :
        IsSome(IF edge THEN Lv(bdd, level_index).nodes[n].e1
                       ELSE Lv(bdd, level_index).nodes[n].e0)

\* the sequence p with its elements i and j exchanged
Exchange(p, i, j) ==
    Table([k \in DOMAIN p |-> IF k = i THEN p[j] ELSE IF k = j THEN p[i] ELSE p[k]])

\* C1: after any sequence of calls of swap, add, absorb (along an edge value
\* that some node of the level has), drop, join_bdds, fix and
\* scan_absorb_lin_eqs on a System whose Bdds start well-formed, every Bdd
\* has one source node, one sink node without edges, no node above the sink
\* without edge, and no edge to a node that is not in the next level.
C1_WellFormedKept ==
    (status = "ok" /\ covered /\ \A id \in DOMAIN orig.bdds : WellFormed(orig.bdds[id]))
    => \A id \in DOMAIN bdds : WellFormed(bdds[id])

\* the assignment a satisfies the System as built and every equation given
\* to fix since
Consistent(a) ==
    /\ \A eq \in given : Eval(eq.lhs, a) = eq.rhs
    /\ \A id \in DOMAIN orig.bdds : a \in BddSolutions(orig.bdds[id])

Satisfiable == \E a \in SUBSET Vars : Consistent(a)

\* the assignment a has the value of every Some of the vector v
Agrees(v, a) == \A i \in DOMAIN v : IsSome(v[i]) => Unwrap(v[i]) = (i \in a)

\* C2: for a System whose equations are satisfiable, every vector that
\* Solver::solve returns agrees, on all its Some entries, with an assignment
\* that satisfies every equation given to fix and follows an accepting path
\* of every Bdd the System was built with.
C2_SolveConsistent ==
    (last.call.op = "solve" /\ last.result = "ok" /\ Satisfiable)
    => \A k \in DOMAIN returned :
          \E a \in SUBSET Vars : Consistent(a) /\ Agrees(returned[k], a)

\* C3: scan_absorb_lin_eqs leaves the residual solution set (the assignments
\* that satisfy the LinBank and follow an accepting path of every Bdd) as it
\* was before the call.
C3_ScanKeepsResidual ==
    (Called("scan_absorb_lin_eqs") /\ status = "ok")
    => Residual(bdds, lin_bank) = Residual(pre.bdds, pre.lin_bank)

\* the nodes of the System, as pairs of a place (bdd id, level) and a node id
AllNodes ==
    UNION {UNION {{<<id, k, n>> : n \in DOMAIN bdds[id].levels[k].nodes} :
                      k \in DOMAIN bdds[id].levels} : id \in DOMAIN bdds}

\* C4: with bdd ids below the multiplier, no two distinct nodes of the
\* System, in the same Bdd or in different Bdds, have the same id.
C4_UniqueIds ==
    (status = "ok" /\ \A id \in DOMAIN orig.bdds : id < IdMult)
    => \A x \in AllNodes : \A y \in AllNodes : x[3] = y[3] => x = y

C4_Witness ==
    /\ status = "ok"
    /\ Called("swap")
    /\ \E n \in DOMAIN Lv(PostBdd, last.call.a2).nodes :
          n \notin DOMAIN Lv(PreBdd, last.call.a2).nodes
    /\ \E x \in AllNodes : x[1] = last.call.bdd_id /\ x[3] % IdMult # x[1]

\* C5, as claimed: for every two distinct equations of the LinBank, in
\* either order, the highest set bit of the one is not set in the other, and
\* no equation has an all-zero left side.
C5_Reduced ==
    status = "ok" =>
        /\ \A i \in DOMAIN lin_bank : lin_bank[i].lhs # {}
        /\ \A i \in DOMAIN lin_bank : \A j \in DOMAIN lin_bank :
              i # j => SetMax(lin_bank[i].lhs) \notin lin_bank[j].lhs

\* C5, amended: no equation of the LinBank has an all-zero left side, and
\* the highest set bit of an equation is not set in the equations stored
\* after it.
C5_ForwardReduced ==
    status = "ok" =>
        /\ \A i \in DOMAIN lin_bank : lin_bank[i].lhs # {}
        /\ \A i \in DOMAIN lin_bank : \A j \in DOMAIN lin_bank :
              i < j => SetMax(lin_bank[i].lhs) \notin lin_bank[j].lhs

C5_Witness ==
    /\ status = "ok"
    /\ Len(lin_bank) >= 2
    /\ last.call.op = "fix" /\ last.result = "ok"
    /\ LinEq(last.call.a1, last.call.edge) \notin Range(lin_bank)

\* C6: swap(i, i+1) on a well-formed Bdd exchanges the forms of the levels i
\* and i+1, leaves the other forms, and accepts a sequence of edge bits
\* exactly when the sequence with the bits i and i+1 exchanged was accepted
\* before.
C6_Swap ==
    (Called("swap") /\ WellFormed(PreBdd))
    => /\ status = "ok"
       /\ Forms(PostBdd) = Exchange(Forms(PreBdd), last.call.a1 + 1, last.call.a2 + 1)
       /\ AcceptingPaths(PostBdd) =
             {Exchange(p, last.call.a1 + 1, last.call.a2 + 1) : p \in AcceptingPaths(PreBdd)}

C6_Witness ==
    /\ Called("swap") /\ WellFormed(PreBdd)
    /\ AcceptingPaths(PostBdd) # AcceptingPaths(PreBdd)
    /\ Forms(PostBdd) # Forms(PreBdd)

\* C7: add(i, j) on a well-formed Bdd makes the form of level j the XOR of
\* the former forms of the levels i and j, and leaves the set of the
\* assignments that follow some accepting path as it was.
C7_Add ==
    (Called("add") /\ WellFormed(PreBdd))
    => /\ status = "ok"
       /\ Forms(PostBdd)[last.call.a2 + 1] =
             Xor(Forms(PreBdd)[last.call.a1 + 1], Forms(PreBdd)[last.call.a2 + 1])
       /\ BddSolutions(PostBdd) = BddSolutions(PreBdd)

C7_Witness ==
    /\ Called("add") /\ WellFormed(PreBdd)
    /\ last.call.a1 + 1 < last.call.a2
    /\ AcceptingPaths(PostBdd) # AcceptingPaths(PreBdd)
    /\ BddSolutions(PreBdd) # {}

\* C8: absorb(L, b) on a well-formed Bdd, L below the sink (0 included) and
\* some node of level L having the edge b, removes level L, leaves the other
\* forms in their order, and accepts exactly the accepting paths of before
\* that take b at level L, with that step deleted.
C8_Absorb ==
    (Called("absorb") /\ WellFormed(PreBdd)
        /\ LevelHasEdge(PreBdd, last.call.a1, last.call.edge))
    => /\ status = "ok"
       /\ Forms(PostBdd) = RemoveAt(Forms(PreBdd), last.call.a1 + 1)
       /\ AcceptingPaths(PostBdd) =
             {RemoveAt(p, last.call.a1 + 1) :
                 p \in {q \in AcceptingPaths(PreBdd) : q[last.call.a1 + 1] = last.call.edge}}

\* C9: absorb on a level of which no node has the edge of the value given
\* returns an error to its caller.
C9_AbsorbInfeasibleIsError ==
    (/\ last.call.op = "absorb"
     /\ last.call.bdd_id \in DOMAIN pre.bdds
     /\ last.call.a1 < get_sink_level_index(PreBdd)
     /\ ~LevelHasEdge(PreBdd, last.call.a1, last.call.edge))
    => (last.result = "err" /\ status = "ok")

\* C10: drop(L) on a well-formed Bdd yields a well-formed Bdd with one level
\* fewer, whose forms are those of before without that of level L, which
\* accepts a sequence of edge bits exactly when some bit put in at place L
\* gives a sequence accepted before; with one level above the sink, only the
\* sink is left.
C10_Drop ==
    (Called("drop") /\ WellFormed(PreBdd))
    => /\ status = "ok"
       /\ WellFormed(PostBdd)
       /\ Len(PostBdd.levels) = Len(PreBdd.levels) - 1
       /\ Forms(PostBdd) = RemoveAt(Forms(PreBdd), last.call.a1 + 1)
       /\ AcceptingPaths(PostBdd) =
             {RemoveAt(p, last.call.a1 + 1) : p \in AcceptingPaths(PreBdd)}
       /\ (Len(PreBdd.levels) = 2 => Len(PostBdd.levels) = 1)

C10_Witness ==
    /\ Called("drop") /\ WellFormed(PreBdd)
    /\ last.call.a1 + 2 < Len(PreBdd.levels)
    /\ Cardinality(AcceptingPaths(PostBdd)) < Cardinality(AcceptingPaths(PreBdd))

\* the one-to-one maps of S onto T
Bijections(S, T) ==
    IF Cardinality(S) # Cardinality(T) THEN {}
    ELSE {f \in [S -> T] : \A x \in S : \A y \in S : f[x] = f[y] => x = y}

\* the edges e1 and e2 are both absent, or lead to nodes that g pairs
EdgeMatch(e1, e2, g) ==
    IF e1 = None THEN e2 = None
    ELSE e2 # None /\ Unwrap(e1) \in DOMAIN g /\ g[Unwrap(e1)] = Unwrap(e2)

RECURSIVE IsoUp(_, _, _, _)
\* the nodes of the levels i and above of bdd1 and bdd2 can be paired, level
\* by level, so that the edges agree; g pairs the nodes of level i + 1
IsoUp(bdd1, bdd2, i, g) ==
    \E f \in Bijections(DOMAIN Lv(bdd1, i).nodes, DOMAIN Lv(bdd2, i).nodes) :
        /\ \A n \in DOMAIN f :
              /\ EdgeMatch(Lv(bdd1, i).nodes[n].e0, Lv(bdd2, i).nodes[f[n]].e0, g)
              /\ EdgeMatch(Lv(bdd1, i).nodes[n].e1, Lv(bdd2, i).nodes[f[n]].e1, g)
        /\ (i = 0 \/ IsoUp(bdd1, bdd2, i - 1, f))

\* bdd1 and bdd2 are structurally equal: the same forms level by level, and
\* the same graph up to a renaming of the node ids
StructEq(bdd1, bdd2) ==
    /\ Len(bdd1.levels) = Len(bdd2.levels)
    /\ \A i \in DOMAIN bdd1.levels : bdd1.levels[i].lhs = bdd2.levels[i].lhs
    /\ IsoUp(bdd1, bdd2, get_sink_level_index(bdd1), EmptyMap)

\* the second Bdd a call of join_bdds names, as it was before the call
PreBdd2 == pre.bdds[last.call.a1]

\* the last call was join_bdds on two distinct well-formed Bdds of the System
JoinCase ==
    /\ last.call.op = "join_bdds"
    /\ last.call.bdd_id # last.call.a1
    /\ last.call.bdd_id \in DOMAIN pre.bdds
    /\ last.call.a1 \in DOMAIN pre.bdds
    /\ WellFormed(PreBdd) /\ WellFormed(PreBdd2)

\* C11: join_bdds(a, b) on two distinct (well-formed) Bdds of the System
\* leaves one Bdd with id a and removes b; the Bdd has the levels of a above
\* its sink followed by the levels of b, accepts exactly an accepting path of
\* a followed by an accepting path of b, and when a or b is only a sink it is
\* structurally equal to the other one.
C11_Join ==
    JoinCase
    => /\ last.result = "ok" /\ status = "ok"
       /\ DOMAIN bdds = DOMAIN pre.bdds \ {last.call.a1}
       /\ \A id \in DOMAIN bdds \ {last.call.bdd_id} : bdds[id] = pre.bdds[id]
       /\ PostBdd.id = last.call.bdd_id
       /\ Len(PostBdd.levels) = Len(PreBdd.levels) + Len(PreBdd2.levels) - 1
       /\ Forms(PostBdd) = Forms(PreBdd) \o Forms(PreBdd2)
       /\ AcceptingPaths(PostBdd) =
             {p \o q : p \in AcceptingPaths(PreBdd), q \in AcceptingPaths(PreBdd2)}
       /\ (Len(PreBdd.levels) = 1 => StructEq(PostBdd, PreBdd2))
       /\ (Len(PreBdd2.levels) = 1 => StructEq(PostBdd, PreBdd))

C11_Witness ==
    /\ JoinCase
    /\ Len(PreBdd.levels) > 1
    /\ Len(PreBdd2.levels) > 1
    /\ Cardinality(AcceptingPaths(PostBdd)) > 1

\* no two nodes of a level of bdd have the same pair of edges
NoDuplicates(bdd) ==
    \A i \in 0 .. get_sink_level_index(bdd) :
        \A n \in DOMAIN Lv(bdd, i).nodes : \A m \in DOMAIN Lv(bdd, i).nodes :
            Lv(bdd, i).nodes[n] = Lv(bdd, i).nodes[m] => n = m

\* bdd is well-formed and reduced
Reduced(bdd) == WellFormed(bdd) /\ NoOrphans(bdd) /\ NoDuplicates(bdd)

\* the last two calls were the same call of op, on the same Bdd of the
\* System, and both passed the checks of System on their operands
CalledTwice(op) ==
    /\ Called(op)
    /\ before.call = last.call
    /\ before.result # "err"
    /\ last.call.bdd_id \in DOMAIN before.bdds

\* the Bdd as it was before the first of the last two calls
BeforeBdd == before.bdds[last.call.bdd_id]

\* C12: on a reduced well-formed Bdd, with i + 1 below the sink, two
\* successive swap(i, i + 1) give a Bdd structurally equal to the one before
\* them: the same forms and the same graph up to the ids of the nodes.
C12_SwapTwice ==
    (CalledTwice("swap") /\ Reduced(BeforeBdd)
        /\ last.call.a2 < get_sink_level_index(BeforeBdd))
    => (status = "ok" /\ StructEq(PostBdd, BeforeBdd))

C12_Witness ==
    /\ CalledTwice("swap") /\ Reduced(BeforeBdd)
    /\ last.call.a2 < get_sink_level_index(BeforeBdd)
    /\ ~StructEq(PreBdd, BeforeBdd)
    /\ Cardinality(DOMAIN Lv(BeforeBdd, last.call.a2).nodes) > 1

\* the forms of every level of bdd, the sink included
AllForms(bdd) == Table([i \in DOMAIN bdd.levels |-> bdd.levels[i].lhs])

\* C13 as stated: two successive add(i, j) on the same pair of levels i < j
\* below the sink, adjacent or not, leave every level with the form it had
\* before the first one.
C13_AddTwice ==
    CalledTwice("add") => (status = "ok" /\ AllForms(PostBdd) = AllForms(BeforeBdd))

\* C13, amended: two successive add(i, i + 1) on the same pair of adjacent
\* levels below the sink leave every level with the form it had before the
\* first one.
C13_AddTwiceAdjacent ==
    (CalledTwice("add") /\ last.call.a2 = last.call.a1 + 1)
    => (status = "ok" /\ AllForms(PostBdd) = AllForms(BeforeBdd))

C13_Witness ==
    /\ CalledTwice("add") /\ last.call.a2 = last.call.a1 + 1
    /\ AllForms(PreBdd) # AllForms(BeforeBdd)
    /\ Lv(BeforeBdd, last.call.a2).lhs # {}

\* the sum of the left sides of the equations of the bank l with index in S
SpanSum(l, S) == {v \in Vars : Cardinality({i \in S : v \in l[i].lhs}) % 2 = 1}

\* lhs is a linear combination of the left sides of the bank l
InSpan(lhs, l) == \E S \in SUBSET DOMAIN l : SpanSum(l, S) = lhs

FixCase == last.call.op = "fix" /\ last.result = "ok" /\ lin_bank # << >>

\* the equation as reduced by the bank, and its highest variable
FixedEq == lin_bank[Len(lin_bank)]
FixedVar == SetMax(FixedEq.lhs)

\* the form of level k (from 1) of bdd once the equation is XORed into the
\* forms that have its highest variable
ReplacedForm(bdd, k) ==
    IF FixedVar \in bdd.levels[k].lhs
    THEN Xor(bdd.levels[k].lhs, FixedEq.lhs)
    ELSE bdd.levels[k].lhs

\* the levels (from 1) above the sink whose form had the variable and became zero
ZeroLevels(bdd) ==
    {k \in 1 .. (Len(bdd.levels) - 1) :
        FixedVar \in bdd.levels[k].lhs /\ ReplacedForm(bdd, k) = {}}

RECURSIVE WithoutLevels(_, _)
\* the sequence s without its elements of index in K
WithoutLevels(s, K) ==
    IF K = {} THEN s ELSE WithoutLevels(RemoveAt(s, SetMax(K)), K \ {SetMax(K)})

\* the path p with its step exchanged at every level that had the variable,
\* when the right side of the equation is 1
ExchangedPath(bdd, p) ==
    Table([k \in DOMAIN p |->
        IF FixedVar \in bdd.levels[k].lhs /\ FixedEq.rhs THEN ~p[k] ELSE p[k]])

\* the paths of bdd, exchanged, that take the 0-edge at every level that
\* became zero, without the steps of these levels
ReplacedPaths(bdd) ==
    {WithoutLevels(q, ZeroLevels(bdd)) :
        q \in {r \in {ExchangedPath(bdd, p) : p \in AcceptingPaths(bdd)} :
                  \A k \in ZeroLevels(bdd) : r[k] = FALSE}}

\* bdd after is bdd with the equation put in place of its highest variable
Replaced(bdd, after) ==
    /\ Forms(after) =
          WithoutLevels(Table([k \in 1 .. (Len(bdd.levels) - 1) |-> ReplacedForm(bdd, k)]),
                  ZeroLevels(bdd))
    /\ AcceptingPaths(after) = ReplacedPaths(bdd)
    /\ ZeroLevels(bdd) = {} =>
          \A k \in 1 .. (Len(bdd.levels) - 1) :
              after.levels[k] =
                  IF FixedVar \in bdd.levels[k].lhs
                  THEN Level(ReplacedForm(bdd, k),
                             IF FixedEq.rhs
                             THEN Table([n \in DOMAIN bdd.levels[k].nodes |->
                                     Node(bdd.levels[k].nodes[n].e1,
                                          bdd.levels[k].nodes[n].e0)])
                             ELSE bdd.levels[k].nodes)
                  ELSE bdd.levels[k]
    /\ \A k \in DOMAIN after.levels : FixedVar \notin after.levels[k].lhs

\* C15: when fix adds an independent equation, with v the highest variable
\* of the equation as reduced by the bank, every level of every Bdd whose
\* form had v has the left side of the equation XORed into its form, the
\* 0-edge and the 1-edge of its nodes exchanged exactly when the right side
\* is 1, and is absorbed along the 0-edge if its form became zero; the levels
\* without v are as before, and no form of the System has v afterwards.
C15_FixReplaces ==
    (last.call.op = "fix" /\ ~InSpan(last.call.a1, pre.lin_bank))
    => /\ last.result = "ok" /\ status = "ok"
       /\ lin_bank # << >>
       /\ DOMAIN bdds = DOMAIN pre.bdds
       /\ \A id \in DOMAIN pre.bdds : Replaced(pre.bdds[id], bdds[id])

\* the same, on a System of well-formed Bdds without orphan nodes, when
\* every level that becomes zero has a node with a 0-edge once exchanged
C15_FixReplacesReduced ==
    (FixCase /\ status = "ok"
        /\ \A id \in DOMAIN pre.bdds :
              WellFormed(pre.bdds[id]) /\ NoOrphans(pre.bdds[id]))
    => /\ DOMAIN bdds = DOMAIN pre.bdds
       /\ \A id \in DOMAIN pre.bdds : Replaced(pre.bdds[id], bdds[id])

\* a level of bdd above the sink in which no node has a 0-edge, or in which
\* no node has a 1-edge
HasLinearLevel(bdd) ==
    \E i \in 0 .. (get_sink_level_index(bdd) - 1) :
        ~LevelHasEdge(bdd, i, FALSE) \/ ~LevelHasEdge(bdd, i, TRUE)

PushedEqs ==
    IF last.call.op = "fix" THEN <<LinEq(last.call.a1, last.call.edge)>>
    ELSE IF last.call.op = "scan_absorb_lin_eqs" /\ last.call.bdd_id \in DOMAIN pre.bdds
         THEN scan_absorb_lin_eq(PreBdd).lin_eqs
         ELSE << >>

RECURSIVE InfeasiblePush(_, _)
\* one of the equations eqs, pushed one after the other to the bank l,
\* reduces against the bank to 0 = 1
InfeasiblePush(l, eqs) ==
    IF eqs = << >> THEN FALSE
    ELSE \/ ReduceLoop(Head(eqs), l) = LinEq({}, TRUE)
         \/ InfeasiblePush(push_lin_eq(l, Head(eqs)).lin_eqs, Tail(eqs))

\* C17: when an equation pushed to the LinBank, through fix or through
\* scan_absorb_lin_eqs, reduces against the bank to 0 = 1, the caller is told
\* so at once: scan_absorb_lin_eqs does not return Ok, and fix does not
\* return what it returns for the same left side with the other right side,
\* which reduces to the redundant 0 = 0.
C17_InfeasibleSurfaced ==
    (status = "ok" /\ InfeasiblePush(pre.lin_bank, PushedEqs))
    => /\ last.result # "ok"
       /\ last.call.op = "fix" =>
             last.result # fix(pre.bdds, pre.lin_bank, last.call.a1, ~last.call.edge).result

\* the sum of the rows of the matrix m with index in S
XorRows(m, S) == {c \in Vars : Cardinality({i \in S : c \in m[i]}) % 2 = 1}

\* the rows of the matrix m are linearly independent
Independent(m) == \A S \in SUBSET DOMAIN m : XorRows(m, S) = {} => S = {}

\* C18: solve_linear_system returns a vector with one entry for every
\* column, for every matrix and right hand side, those with redundant or
\* inconsistent rows too: the call never aborts.
C18_SolveAlwaysReturns ==
    answer.op = "solve_linear_system"
    => /\ ~answer.panicked
       /\ DOMAIN answer.solutions = 0 .. (MatrixColumns(matrix) - 1)

\* the assignments x with m x = v
LinearSolutions(m, v) == {x \in SUBSET Vars : \A i \in DOMAIN m : Eval(m[i], x) = v[i]}

\* what the solutions of m x = v leave to the variable c: Some(b) when c is
\* b in every one of them, None otherwise
Determined(m, v, c) ==
    IF \E b \in BOOLEAN : \A x \in LinearSolutions(m, v) : (c \in x) = b
    THEN Some(CHOOSE b \in BOOLEAN : \A x \in LinearSolutions(m, v) : (c \in x) = b)
    ELSE None

RowSpace(m) == {XorRows(m, S) : S \in SUBSET DOMAIN m}

\* D = answer.rows is a matrix of dependencies of M = matrix with the most
\* rows there can be: D M = 0, the rows of D are linearly independent, and
\* there are rows(M) - rank(M) of them
MaximalDependencies ==
    /\ ~answer.panicked
    /\ \A i \in DOMAIN answer.rows :
          /\ answer.rows[i] \subseteq DOMAIN matrix
          /\ XorRows(matrix, answer.rows[i]) = {}
    /\ \A S \in SUBSET DOMAIN answer.rows :
          {r \in DOMAIN matrix :
              Cardinality({i \in S : r \in answer.rows[i]}) % 2 = 1} = {} => S = {}
    /\ Cardinality(RowSpace(matrix)) * (2 ^ Cardinality(DOMAIN answer.rows))
          = 2 ^ Cardinality(DOMAIN matrix)

\* C20: for every matrix M, those with all-zero rows too,
\* D = extract_linear_dependencies(M) has D M = 0, linearly independent rows,
\* and rows(M) - rank(M) rows.
C20_ExtractDependencies ==
    answer.op = "extract_linear_dependencies" => MaximalDependencies

\* the same, for the matrices that have a row with a bit set
C20_ExtractDependenciesNonZero ==
    (answer.op = "extract_linear_dependencies" /\ \E i \in DOMAIN matrix : matrix[i] # {})
    => MaximalDependencies

\* C21: on a well-formed Bdd, count_paths returns 0 when the Bdd is only a
\* sink, and the number of the paths from the source to the sink otherwise,
\* two paths being distinct when they differ in the edge taken at some level.
C21_CountPaths ==
    (Called("count_paths") /\ WellFormed(PreBdd))
    => /\ last.result = "ok" /\ status = "ok"
       /\ last.value = IF get_sink_level_index(PreBdd) = 0 THEN 0
                       ELSE Cardinality(AcceptingPaths(PreBdd))

C21_Witness ==
    /\ Called("count_paths") /\ WellFormed(PreBdd)
    /\ last.value = 4
    /\ \E i \in 0 .. (get_sink_level_index(PreBdd) - 1) :
          \E n \in DOMAIN Lv(PreBdd, i).nodes :
             Lv(PreBdd, i).nodes[n].e0 = Lv(PreBdd, i).nodes[n].e1
    /\ pre.bdds # orig.bdds

\* C22: the enumeration of the paths stops at 20: get_all_valid_path returns
\* at most 20 paths, and get_solutions at most 20 solutions.
C22_PathCap ==
    (last.call.op \in {"get_all_valid_path", "get_solutions"} /\ last.result = "ok")
    => last.value <= 20

\* the last call was swap, add, absorb or drop with operands that System
\* refuses: swap with below # above + 1, add with above >= below, a Bdd that
\* is not in the System, or a (lower) level index at or beyond the sink
RefusedCall ==
    \/ last.call.op = "swap" /\ last.call.a2 # last.call.a1 + 1
    \/ last.call.op = "add" /\ last.call.a1 >= last.call.a2
    \/ /\ last.call.op \in {"swap", "add", "absorb", "drop"}
       /\ last.call.bdd_id \notin DOMAIN pre.bdds
    \/ /\ last.call.op \in {"swap", "add"}
       /\ last.call.bdd_id \in DOMAIN pre.bdds
       /\ last.call.a2 >= get_sink_level_index(PreBdd)
    \/ /\ last.call.op \in {"absorb", "drop"}
       /\ last.call.bdd_id \in DOMAIN pre.bdds
       /\ last.call.a1 >= get_sink_level_index(PreBdd)

\* C23: swap, add, absorb and drop of System check their operands before
\* they touch the Bdd: a call that they refuse returns an error and leaves
\* every Bdd and the LinBank as they were.
C23_RefusedUnchanged ==
    RefusedCall
    => /\ last.result = "err" /\ status = "ok"
       /\ bdds = pre.bdds
       /\ lin_bank = pre.lin_bank

C23_Witness ==
    /\ RefusedCall
    /\ last.call.op = "drop"
    /\ last.call.bdd_id \in DOMAIN pre.bdds
    /\ last.call.a1 > get_sink_level_index(PreBdd)
    /\ last.result = "err"
    /\ pre.bdds # orig.bdds

\* every edge of bdd goes to a node of the next level
NoJumpingEdge(bdd) ==
    \A i \in 0 .. (get_sink_level_index(bdd) - 1) :
        EdgeSet(Lv(bdd, i).nodes) \subseteq DOMAIN Lv(bdd, i + 1).nodes

\* C24: after build_bdd_from_spec, on a specification whose edges all name
\* a node of some later level, every edge of the Bdd built names a node of
\* the next level.
C24_NoJumpingEdgeBuilt ==
    steps = 0 => \A id \in DOMAIN bdds : NoJumpingEdge(bdds[id])

\* the same, for the edges of the levels that are more than two levels above
\* the sink
C24_NoJumpingEdgeHigher ==
    steps = 0 =>
        \A id \in DOMAIN bdds :
            \A i \in 0 .. (get_sink_level_index(bdds[id]) - 3) :
                EdgeSet(Lv(bdds[id], i).nodes) \subseteq DOMAIN Lv(bdds[id], i + 1).nodes

\* the sum of the forms of the sequence forms
XorAll(forms) == {c \in Vars : Cardinality({i \in DOMAIN forms : c \in forms[i]}) % 2 = 1}

\* C25: resolve, called with the best_join_order of a dependency extracted
\* from a System that absorb_all_equations has just left, joins the Bdds so
\* that every index returned is the index of the level it stands for, and
\* after the swaps and the adds the level at the first index + 1 of the Bdd
\* joined has the all-zero form when absorb(.., false) is called on it.
C25_ResolveZeroForm ==
    last.call.op = "resolve"
    => /\ ~resolving.failed
       /\ Len(resolving.origin) = Len(resolving.levels)
       /\ \A k \in DOMAIN resolving.levels :
             /\ resolving.levels[k] + 1 \in DOMAIN resolving.joined
             /\ resolving.joined[resolving.levels[k] + 1] = resolving.origin[k]
       /\ XorAll(resolving.origin) = {}
       /\ resolving.levels[1] + 2 \in DOMAIN resolving.reduced
       /\ resolving.reduced[resolving.levels[1] + 2] = {}

C25_Witness ==
    /\ last.call.op = "resolve"
    /\ Len(resolving.ids) = 3
    /\ Len(resolving.levels) = 3
    /\ ~resolving.failed

C25_WitnessLong ==
    /\ last.call.op = "resolve"
    /\ Len(resolving.ids) = 1
    /\ Len(resolving.levels) >= 3
    /\ \E k \in 1 .. (Len(resolving.levels) - 1) :
          resolving.levels[k + 1] > resolving.levels[k] + 1

\* the number of the levels above the sinks of the Bdds of a System
NonSinkLevels(b) == Sum(Table([k \in DOMAIN IterOrder(DOMAIN b) |->
                        get_sink_level_index(b[IterOrder(DOMAIN b)[k]])]))

\* C26: join, swap and add never increase the number of levels above the
\* sinks in the System, and every pass of the loop of Solver::solve and of
\* DroppingSolver::solve removes at least one such level or returns an
\* error, so that the loop ends after at most as many passes as there are
\* levels above the sinks.
C26_PassRemovesLevel ==
    /\ last.call.op \in {"swap", "add", "join_bdds"}
       => NonSinkLevels(bdds) <= NonSinkLevels(pre.bdds)
    /\ last.call.op \in {"solve_pass", "dropping_pass"}
       => \/ last.result = "err"
          \/ /\ last.result = "ok" /\ status = "ok"
             /\ NonSinkLevels(bdds) < NonSinkLevels(pre.bdds)

\* the same with the pass that aborts the program set apart
C26_PassRemovesLevelOrAborts ==
    /\ last.call.op \in {"swap", "add", "join_bdds"}
       => NonSinkLevels(bdds) <= NonSinkLevels(pre.bdds)
    /\ last.call.op \in {"solve_pass", "dropping_pass"}
       => \/ last.result \in {"err", "panic"}
          \/ /\ last.result = "ok" /\ status = "ok"
             /\ NonSinkLevels(bdds) < NonSinkLevels(pre.bdds)

\* the sum of the sizes of the levels with an index (from 0) above lo and
\* below hi
SumBetween(levels, lo, hi) ==
    Sum(Table([k \in 1 .. Len(levels) |-> IF lo < k - 1 /\ k - 1 < hi THEN levels[k] ELSE 0]))

\* C27: for a dependency whose involved levels all lie in one Bdd,
\* minimize_distance returns the sum of the node counts of the levels
\* strictly between the first and the last involved level of that Bdd.
C27_DistanceBetween ==
    (last.call.op = "minimize_distance" /\ last.call.edge)
    => last.value = SumBetween(last.call.a2, Head(last.call.a1), Last(last.call.a1))

\* no two nodes of level level_index of bdd have the same pair of edges
NoDuplicatesAt(bdd, level_index) ==
    \A n \in DOMAIN Lv(bdd, level_index).nodes :
        \A m \in DOMAIN Lv(bdd, level_index).nodes :
            Lv(bdd, level_index).nodes[n] = Lv(bdd, level_index).nodes[m] => n = m

\* C28: merge_equals_node_start(L), L >= 1, on a Bdd without dangling
\* edges, goes from level L up to level 1 included unless a level it visits
\* has no two nodes with the same edges: a call that is not stopped that way
\* leaves no two nodes with the same edges in level 1.
C28_MergeReachesLevelOne ==
    (/\ Called("merge_equals_node_start")
     /\ last.result = "ok"
     /\ last.call.a1 >= 1
     /\ WellFormed(PreBdd)
     /\ last.value = 1)
    => NoDuplicatesAt(PostBdd, 1)

\* the same for the levels below level 1, which the loop does visit
C28_MergeReachesLevelTwo ==
    (/\ Called("merge_equals_node_start")
     /\ last.result = "ok"
     /\ last.call.a1 >= 2
     /\ WellFormed(PreBdd)
     /\ last.value = 1)
    => /\ WellFormed(PostBdd)
       /\ NoDuplicatesAt(PostBdd, 2)
       /\ AcceptingPaths(PostBdd) = AcceptingPaths(PreBdd)

\* C29: when split returns an error, because an id of the list is not in
\* the System or because the list is empty, the System still holds every
\* Bdd it held before the call.
C29_SplitAllOrNothing ==
    (last.call.op = "split" /\ last.result = "err") => bdds = pre.bdds

\* the same for the calls that fail on their first id or on an empty list
C29_SplitFirstRefused ==
    (/\ last.call.op = "split" /\ last.result = "err"
     /\ (last.call.a1 = << >> \/ Head(last.call.a1) \notin DOMAIN pre.bdds))
    => bdds = pre.bdds

\* the last call was a command of main that unwraps what
\* execute_strategy_by_name returns
UnwrappingCommand ==
    /\ last.call.op = "main"
    /\ last.call.a1 \in {"sponge", "from_file"} \/ last.call.a2 = None

\* C30: every name that main hands to execute_strategy_by_name before an
\* unwrap is one that the function recognises: the cipher command without a
\* strategy, the sponge command and the from-file command get a solver, and
\* the unwrap does not fail.
C30_StrategyRecognised ==
    UnwrappingCommand
    => /\ NamePassed(last.call.a1, last.call.a2) \in {"no_drop", "drop"}
       /\ last.call.edge

\* the same for the cipher command alone
C30_CipherRecognised ==
    (last.call.op = "main" /\ last.call.a1 = "cipher" /\ last.call.a2 = None)
    => /\ NamePassed(last.call.a1, last.call.a2) \in {"no_drop", "drop"}
       /\ last.call.edge

====
